---------------------------- MODULE Spec2Model ----------------------------
(***************************************************************************)
(* A model of DPTools (tysours/DPTools): the ensemble-deviation sampler    *)
(* (dptools/train/ensemble.py), the simulation runner and its command      *)
(* builders (dptools/simulate/simulations.py, calculator.py) and the type  *)
(* map utilities (dptools/utils.py), and the command-line entry points,    *)
(* the engine read-back, the ensemble loader and the training-set writer   *)
(* (dptools/cli, dptools/env.py, dptools/train/input.py).                  *)
(*                                                                         *)
(* The components share no state, so each is checked under a specification *)
(* of its own (SpecSample, ...) that starts in the common initial state    *)
(* and takes only that component's actions.                                *)
(***************************************************************************)
EXTENDS Integers, Sequences, FiniteSets, Bags, TLC

(***************************************************************************)
(* Bounds of the model                                                     *)
(***************************************************************************)
\* longest trajectory (number of frames) handed to the sampler
MaxFrames == 3
\* largest max_count n passed to sample()
MaxN == 3
\* most entries of one explicit type map
MaxTypes == 2
\* largest type index written in an explicit type map
MaxIndex == 2
\* most calculate()/write_input() calls made on one calculator
MaxCalls == 3
\* most keys of one parameter set
MaxParams == 2
\* parameter values supplied range over 0 .. MaxValue
MaxValue == 1
\* seeds drawn by get_seed range over 0 .. MaxSeed
MaxSeed == 1
\* most structure inputs given to one `dptools run`
MaxJobs == 2
\* most structures in the list one simulation is built on
MaxStructures == 3
\* most volumes N of an equation-of-state scan
MaxVolumes == 5
\* cell volumes V0 of the scanned structure range over 1 .. MaxCellVolume
MaxCellVolume == 2
\* most atoms of the structure of a vibrational analysis
MaxAtoms == 1
\* most models in the ensemble given to SampleConfigs
MaxModels == 3
\* most atoms the engine holds when its per-atom data is read back
MaxEngineAtoms == 3
\* most images in the file a training set is written from
MaxImages == 100

(***************************************************************************)
(* State                                                                   *)
(***************************************************************************)
\* EnsembleDeviationSampler (dptools/train/ensemble.py, cli/sample.py)
VARIABLES
  cache,        \* the file dev.npy of the working directory: [exists, data]
  nframes,      \* len(self.configs) of the current SampleConfigs object
  inferred,     \* the last get_dev's call of calc_model_devi: [ran, out]
  dev,          \* self.dev, the array get_dev returned
  lo, hi, n,    \* the arguments of the last sample() call
  new_configs,  \* the frames sample() returned, as indices into self.configs
  spc           \* "idle" | "sampled" | "ValueError"

\* TypeMap (dptools/utils.py, simulate/calculator.py)
VARIABLES
  tm_given,       \* the explicit mapping supplied, an ordered dict
  tm_form,        \* the form it was handed to read_type_map in
  tm_out,         \* what read_type_map returned or raised: [err, map]
  calc_type_map,  \* DeepMD._type_map of the calculator built from tm_out
  calc_calls,     \* calculate()/write_input() calls made on that calculator
  dump_types,     \* read_dump's index -> symbol table built from tm_out
  tm_pc           \* "none" | "given" | "read" | "calc" | "TypeError"

\* CommandBuilder (dptools/simulate/simulations.py: setup / get_commands)
VARIABLES
  b_type,      \* calc_type of the simulation class selected
  b_kwargs,    \* the parameter set passed to it (**self.params)
  b_seed,      \* the value get_seed returned to the builder
  b_commands,  \* self.commands, the sequence get_commands returned
  b_warnings,  \* the bag of warnings _warn_unused printed
  b_pc         \* "none" | "built"

\* SimulationRunner (dptools/cli/run.py: CLI.run; simulations.py: Simulation)
VARIABLES
  r_in,        \* what the run was started with: calc_type, inputs, params
  r_job,       \* position of CLI.run's loop over the structure inputs
  r_atoms,     \* len(self.atoms) of the simulation being built or run
  r_call,      \* the call of Simulation.run in progress: "pre_opt" | "run"
  r_process,   \* the process argument of that call
  r_commands,  \* the commands of that call
  r_i,         \* structures that call's loop has finished
  r_pc,        \* "none" | "construct" | "loop" | "constructed" | "done" | "raised"
  r_log,       \* the engine executions and process() calls made, in order
  r_failed     \* where the engine raised

\* Post-processing (simulations.py: EOS.set_volumes, EOS.process, Vib.process)
VARIABLES
  eos_in,      \* V0, lo, hi, N of the scan
  eos_atoms,   \* self.atoms after set_volumes: the cell of each structure
  eos_energies,\* the potential energy the engine left on each structure
  eos_fit,     \* outcome of eos.fit(): "none" | "ok" | "RuntimeError"
  eos_printed, \* the lines process() printed
  eos_files,   \* the files process() wrote, by name
  eos_pc,      \* "none" | "setup" | "ran" | "processed" | "raised"
  vib_eig,     \* eig_vals as np.linalg.eig returned them
  vib_sorted,  \* eig_vals after np.flip(np.sort(eig_vals))
  vib_freq,    \* the freq array written to data.vib.npy
  vib_pc       \* "none" | "processed"

\* SampleConfigs built on an ensemble of any size (train/ensemble.py)
VARIABLES
  g_graphs,    \* len(self.graphs)
  g_prior,     \* dev.npy as an earlier run left it
  g_cache,     \* dev.npy now
  g_inferred,  \* whether calc_model_devi was called
  g_result,    \* what get_dev returned or raised
  g_pc         \* "none" | "ready" | "returned" | "raised"

sampleVars == <<cache, nframes, inferred, dev, lo, hi, n, new_configs, spc>>
typeMapVars ==
  <<tm_given, tm_form, tm_out, calc_type_map, calc_calls, dump_types, tm_pc>>
buildVars == <<b_type, b_kwargs, b_seed, b_commands, b_warnings, b_pc>>
processVars ==
  <<eos_in, eos_atoms, eos_energies, eos_fit, eos_printed, eos_files, eos_pc,
    vib_eig, vib_sorted, vib_freq, vib_pc>>
ensembleVars == <<g_graphs, g_prior, g_cache, g_inferred, g_result, g_pc>>
runVars ==
  <<r_in, r_job, r_atoms, r_call, r_process, r_commands, r_i, r_pc, r_log, r_failed>>

\* `dptools run` from its command line on (dptools/cli/run.py: CLI.main)
VARIABLES
  m_args,      \* the command line: calculation, stored sets, mode, inputs
  m_calc_type, \* self.calc_type as set_params left it
  m_d,         \* inputs CLI.run's loop has finished
  m_log,       \* what was set up, run and written, in order
  m_pc         \* "none" | "parsed" | "run" | "done" | "KeyError"

mainVars == <<m_args, m_calc_type, m_d, m_log, m_pc>>

\* Per-atom data read back from the engine (calculator.py: calculate,
\* update_atoms; utils.py: read_dump)
VARIABLES
  e_ids,       \* the engine's atom ids in the order it stores the atoms
  e_atoms,     \* the engine's data of each atom, by id: [x, f, type]
  e_shift,     \* the origin of the engine's box
  c_out,       \* what calculate() left: [positions, forces]
  d_out,       \* the Atoms read_dump returned: [positions, symbols, tags]
  e_pc         \* "none" | "stored" | "calculated" | "read"

dumpVars == <<e_ids, e_atoms, e_shift, c_out, d_out, e_pc>>

\* `dptools train` (dptools/cli/train.py: CLI.main, setup, submit_jobs)
VARIABLES
  t_args,      \* the command line: dataset, ensemble, submit
  t_dirs,      \* self.dirs
  t_json,      \* the in_json dict setup loaded, shared by all iterations
  t_drawn,     \* the seeds each randomize_seed call drew, in call order
  t_files,     \* the in.json files written: directory -> content
  t_log,       \* the job scripts written and the jobs submitted, in order
  t_pc         \* "none" | "setup" | "submit" | "done" | "ValueError"

trainVars == <<t_args, t_dirs, t_json, t_drawn, t_files, t_log, t_pc>>

\* The stored models and `dptools sample`'s choice of ensemble
\* (dptools/env.py: set_model, get_dpfaults; cli/sample.py: load_ensemble)
VARIABLES
  l_env,       \* the env file: key -> value, "None" where the key is absent
  l_arg,       \* args.model_ensemble, <<>> when the option is not given
  l_ensemble,  \* self.ensemble
  l_type_map,  \* self.type_map: [kind, text]
  l_pc         \* "none" | "loaded" | "ImportError"

loadVars == <<l_env, l_arg, l_ensemble, l_type_map, l_pc>>

\* get_dev called again and again in one working directory
\* (train/ensemble.py: SampleConfigs.get_dev; cli/sample.py: CLI.main)
VARIABLES
  k_cache,     \* the file dev.npy of that directory
  k_configs,   \* self.configs of the last call, as its deviation values
  k_dev,       \* what the last call returned
  k_calls      \* get_dev calls made there so far, counted up to two

cacheVars == <<k_cache, k_configs, k_dev, k_calls>>

\* The type numbers of a GCMC simulation (simulations.py: GCMC.setup;
\* calculator.py: DeepMD.set_atoms, set_types)
VARIABLES
  x_in,        \* type_map, molecule and pre_opt_mol the simulation is given
  x_mol_tags,  \* the tag of each atom of the molecule, as mol.<name> has it
  x_types,     \* the calculator's _type_map when it writes the framework
  x_pc         \* "none" | "setup" | "run"

gcmcVars == <<x_in, x_mol_tags, x_types, x_pc>>

\* DeepInput (dptools/train/input.py: set_dataset, write_input)
VARIABLES
  i_in,        \* the images of atoms_file and the argument n
  i_len,       \* len(self.energies) after set_dataset
  i_sets,      \* the frames written to each set's .npy files, by position
  i_types,     \* the sets whose type.raw was written
  i_pc         \* "none" | "written" | "ValueError"

inputVars == <<i_in, i_len, i_sets, i_types, i_pc>>

\* the state of the components above
coreVars == <<sampleVars, typeMapVars, buildVars, runVars, processVars, ensembleVars>>
\* the state of the command-line components
cliVars == <<mainVars, dumpVars, trainVars, loadVars, cacheVars, gcmcVars, inputVars>>
\* what the actions of each command-line component leave alone
mainFrame == <<coreVars, dumpVars, trainVars, loadVars, cacheVars, gcmcVars, inputVars>>
dumpFrame == <<coreVars, mainVars, trainVars, loadVars, cacheVars, gcmcVars, inputVars>>
trainFrame == <<coreVars, mainVars, dumpVars, loadVars, cacheVars, gcmcVars, inputVars>>
loadFrame == <<coreVars, mainVars, dumpVars, trainVars, cacheVars, gcmcVars, inputVars>>
cacheFrame == <<coreVars, mainVars, dumpVars, trainVars, loadVars, gcmcVars, inputVars>>
gcmcFrame == <<coreVars, mainVars, dumpVars, trainVars, loadVars, cacheVars, inputVars>>
inputFrame == <<coreVars, mainVars, dumpVars, trainVars, loadVars, cacheVars, gcmcVars>>

(***************************************************************************)
(* General helpers                                                         *)
(***************************************************************************)
Range(s) == {s[i] : i \in 1..Len(s)}

Min(a, b) == IF a < b THEN a ELSE b

\* all sequences over S of length exactly k / at most k
SeqsOfLen(S, k) == [1..k -> S]
SeqsUpTo(S, k) == UNION {SeqsOfLen(S, j) : j \in 0..k}

\* the subsets of S of at most k elements
RECURSIVE SubsetsUpTo(_, _)
SubsetsUpTo(S, k) ==
  IF k = 0 THEN {{}}
  ELSE LET P == SubsetsUpTo(S, k - 1) IN P \cup {p \cup {x} : p \in P, x \in S}

\* the ascending enumeration of a finite set of integers
RECURSIVE SetToSortedSeq(_)
SetToSortedSeq(S) ==
  IF S = {} THEN <<>>
  ELSE LET m == CHOOSE x \in S : \A y \in S : x <= y
       IN <<m>> \o SetToSortedSeq(S \ {m})

(***************************************************************************)
(* EnsembleDeviationSampler: dptools/train/ensemble.py, cli/sample.py      *)
(***************************************************************************)
\* Deviation values and the thresholds lo, hi range over three levels, so a
\* frame can lie below, on an endpoint of, strictly inside or above [lo, hi].
DevValues == {0, 1, 2}

\* a trajectory is identified by the array calc_model_devi yields for it; it
\* has at least one frame (get_dev reads self.configs[0])
Trajectories == SeqsUpTo(DevValues, MaxFrames) \ {<<>>}

NoFile == [exists |-> FALSE, data |-> <<>>]
NotRun == [ran |-> FALSE, out |-> <<>>]

\* get_dev with the length check dropped: any existing dev.npy is returned
get_dev_any_cache(c, traj) ==
  IF c.exists
    THEN [dev |-> c.data, inferred |-> NotRun, cache |-> c]
    ELSE [dev |-> traj, inferred |-> [ran |-> TRUE, out |-> traj],
          cache |-> [exists |-> TRUE, data |-> traj]]

\* SampleConfigs.get_dev: c is dev.npy before the call, traj the array the
\* ensemble inference yields for self.configs (len(traj) = len(self.configs))
get_dev(c, traj) ==
  IF c.exists /\ Len(c.data) = Len(traj)
    THEN [dev |-> c.data, inferred |-> NotRun, cache |-> c]
    ELSE [dev |-> traj, inferred |-> [ran |-> TRUE, out |-> traj],
          cache |-> [exists |-> TRUE, data |-> traj]]

\* the filter with the upper bound dropped
i_configs_no_hi(d, l, h) ==
  SetToSortedSeq({i \in 0..(Len(d) - 1) : d[i + 1] >= l})

\* np.where(np.logical_and(dev >= lo, dev <= hi))[0]: 0-based, ascending
i_configs(d, l, h) ==
  SetToSortedSeq({i \in 0..(Len(d) - 1) : d[i + 1] >= l /\ d[i + 1] <= h})

\* the cap dropped: n frames are asked of random.sample whatever qualifies
n_sample_uncapped(nn, ic) == nn

\* n_sample = n if n < len(i_configs) else len(i_configs)
n_sample(nn, ic) == IF nn < Len(ic) THEN nn ELSE Len(ic)

\* random.sample(population, k): every k-long sequence of elements at
\* distinct positions, in any order; ValueError (no outcome) when k < 0
random_sample(population, k) ==
  IF k < 0 \/ k > Len(population) THEN {}
  ELSE {s \in SeqsOfLen(Range(population), k) :
          \A i, j \in 1..k : i # j => s[i] # s[j]}

\* the draw returned as drawn (dptools/ensemble.py, the earlier sampler)
sorted_missing(s) == s

\* sorted(i_new_configs)
sorted(s) == SetToSortedSeq(Range(s))

\* CLI.sample: SampleConfigs(configs, ...).sample(lo, hi, n) on a trajectory
Sample(traj, l, h, nn) ==
  /\ spc = "idle"
  /\ LET g == get_dev(cache, traj)
         ic == i_configs(g.dev, l, h)
         k == n_sample(nn, ic)
     IN /\ cache' = g.cache
        /\ inferred' = g.inferred
        /\ dev' = g.dev
        /\ nframes' = Len(traj)
        /\ lo' = l /\ hi' = h /\ n' = nn
        /\ IF random_sample(ic, k) = {}
             THEN /\ new_configs' = <<>>
                  /\ spc' = "ValueError"
             ELSE /\ \E draw \in random_sample(ic, k) : new_configs' = sorted(draw)
                  /\ spc' = "sampled"
  /\ UNCHANGED <<typeMapVars, buildVars, runVars, processVars, ensembleVars, cliVars>>

\* the process ends: only dev.npy stays behind in the working directory
SampleExit ==
  /\ spc # "idle"
  /\ spc' = "idle"
  /\ nframes' = 0 /\ inferred' = NotRun /\ dev' = <<>>
  /\ lo' = 0 /\ hi' = 0 /\ n' = 0 /\ new_configs' = <<>>
  /\ UNCHANGED cache
  /\ UNCHANGED <<typeMapVars, buildVars, runVars, processVars, ensembleVars, cliVars>>

InitSample ==
  /\ cache = NoFile
  /\ nframes = 0 /\ inferred = NotRun /\ dev = <<>>
  /\ lo = 0 /\ hi = 0 /\ n = 0 /\ new_configs = <<>>
  /\ spc = "idle"

NextSample ==
  \/ /\ spc = "idle"
     /\ \E traj \in Trajectories, l \in DevValues, h \in DevValues, nn \in -1..MaxN :
          Sample(traj, l, h, nn)
  \/ SampleExit

(***************************************************************************)
(* TypeMap: dptools/utils.py, DeepMD.set_types, read_dump                  *)
(***************************************************************************)
\* A Python value used as a key or a value of a type map: a str (a sequence
\* of characters) or an int.
StrV(s) == [kind |-> "str", s |-> s, i |-> 0]
IntV(i) == [kind |-> "int", s |-> <<>>, i |-> i]

\* entries of ase.data.chemical_symbols
chemical_symbols == {<<"X">>, <<"H">>, <<"O">>, <<"S", "i">>}

\* the strings written in explicit type maps: three symbols and a typo
MapStrings == {<<"H">>, <<"O">>, <<"S", "i">>, <<"X", "x">>}

IsSymbol(x) == x.kind = "str" /\ x.s \in chemical_symbols
IsInt(x) == x.kind = "int"

\* a dict is the sequence of its items [k, v] in insertion order
Keys(d) == {d[i].k : i \in 1..Len(d)}
Values(d) == {d[i].v : i \in 1..Len(d)}
Lookup(d, key) == d[CHOOSE i \in 1..Len(d) : d[i].k = key].v
DictEq(a, b) == Range(a) = Range(b)

\* d[key] = val
DictSet(d, key, val) ==
  IF key \in Keys(d)
    THEN [i \in 1..Len(d) |->
            IF d[i].k = key THEN [k |-> key, v |-> val] ELSE d[i]]
    ELSE Append(d, [k |-> key, v |-> val])

\* {k: v for k, v in items}: a later item overwrites an earlier equal key
RECURSIVE DictFromItems(_)
DictFromItems(items) ==
  IF items = <<>> THEN <<>>
  ELSE LET last == items[Len(items)]
       IN DictSet(DictFromItems(SubSeq(items, 1, Len(items) - 1)), last.k, last.v)

\* {v: k for k, v in type_map.items()}
invert(d) == DictFromItems([i \in 1..Len(d) |-> [k |-> d[i].v, v |-> d[i].k]])

\* check_type_map: only the first key is looked at (the loop breaks after it)
check_type_map(d) ==
  IF Len(d) > 0 /\ ~IsSymbol(d[1].k) THEN invert(d) ELSE d

DigitChars == <<"0", "1", "2", "3", "4", "5", "6", "7", "8", "9">>
DigitVal(c) == (CHOOSE i \in 1..Len(DigitChars) : DigitChars[i] = c) - 1
IsDigits(s) == s # <<>> /\ \A i \in 1..Len(s) : s[i] \in Range(DigitChars)

\* f"{i}" of an int i >= 0
RECURSIVE repr_int(_)
repr_int(i) ==
  IF i < Len(DigitChars) THEN <<DigitChars[i + 1]>>
  ELSE repr_int(i \div Len(DigitChars)) \o
       <<DigitChars[(i % Len(DigitChars)) + 1]>>

\* f"{x}"
format(x) == IF x.kind = "str" THEN x.s ELSE repr_int(x.i)

\* int(s) of a string of digits
RECURSIVE parse_int(_)
parse_int(s) ==
  IF Len(s) = 1 THEN DigitVal(s[1])
  ELSE Len(DigitChars) * parse_int(SubSeq(s, 1, Len(s) - 1)) + DigitVal(s[Len(s)])

\* sep.join(parts)
RECURSIVE join(_, _)
join(parts, sep) ==
  IF parts = <<>> THEN <<>>
  ELSE IF Len(parts) = 1 THEN parts[1]
  ELSE parts[1] \o sep \o join(Tail(parts), sep)

\* s.split(c) for a one-character separator c
RECURSIVE split(_, _)
split(s, c) ==
  IF \A i \in 1..Len(s) : s[i] # c THEN <<s>>
  ELSE LET p == CHOOSE i \in 1..Len(s) :
                  s[i] = c /\ \A j \in 1..(i - 1) : s[j] # c
       IN <<SubSeq(s, 1, p - 1)>> \o split(SubSeq(s, p + 1, Len(s)), c)

\* ",".join([f"{k}:{v}" for k, v in d.items()]): the compact text of d as written
compact(d) ==
  join([i \in 1..Len(d) |-> format(d[i].k) \o <<":">> \o format(d[i].v)], <<",">>)

\* typemap2str
typemap2str(d) == compact(check_type_map(d))

Ok(d) == [err |-> "none", map |-> d]
Raised(e) == [err |-> e, map |-> <<>>]

\* the index kept as the text after the colon (the int() call left out)
str2typemap_keeps_text(txt) ==
  LET items == split(txt, ",")
      parts(i) == split(items[i], ":")
  IN Ok(DictFromItems([i \in 1..Len(items) |->
          [k |-> StrV(parts(i)[1]), v |-> StrV(parts(i)[Len(parts(i))])]]))

\* str2typemap: {i.split(":")[0]: int(i.split(":")[-1]) for i in items}
str2typemap(txt) ==
  LET items == split(txt, ",")
      parts(i) == split(items[i], ":")
  IN IF \E i \in 1..Len(items) : ~IsDigits(parts(i)[Len(parts(i))])
       THEN Raised("ValueError")
       ELSE Ok(DictFromItems([i \in 1..Len(items) |->
               [k |-> StrV(parts(i)[1]),
                v |-> IntV(parse_int(parts(i)[Len(parts(i))]))]]))

\* json.dumps of a dict: a JSON object, the sequence of its members; a member
\* name is a string, so an int key is written as its decimal text
json_dumps(d) == [i \in 1..Len(d) |-> [k |-> format(d[i].k), v |-> d[i].v]]

\* json.loads of a JSON object: a dict whose keys are all str
json_loads(doc) ==
  DictFromItems([i \in 1..Len(doc) |-> [k |-> StrV(doc[i].k), v |-> doc[i].v]])

DictInput(d) == [form |-> "dict", d |-> d, s |-> <<>>, j |-> <<>>]
StrInput(txt) == [form |-> "str", d |-> <<>>, s |-> txt, j |-> <<>>]
JsonInput(doc) == [form |-> "json", d |-> <<>>, s |-> <<>>, j |-> doc]

\* read_type_map: a dict, a compact string or the path of a .json file
read_type_map(x) ==
  IF x.form = "dict" THEN Ok(check_type_map(x.d))
  ELSE IF x.form = "json" THEN Ok(check_type_map(json_loads(x.j)))
  ELSE LET r == str2typemap(x.s)
       IN IF r.err # "none" THEN r ELSE Ok(check_type_map(r.map))

\* the forms an explicit mapping m is handed to read_type_map in: the dict
\* itself, its compact text as written, the DPTOOLS_TYPE_MAP text typemap2str
\* stores (dptools/env.py), and a .json file holding it
Forms == {"dict", "str", "env", "json"}
AsInput(m, form) ==
  IF form = "dict" THEN DictInput(m)
  ELSE IF form = "str" THEN StrInput(compact(m))
  ELSE IF form = "env" THEN StrInput(typemap2str(m))
  ELSE JsonInput(json_dumps(m))

\* {sym: i + 1 for sym, i in type_map.items()}
shift_types(d) ==
  IF \A i \in 1..Len(d) : IsInt(d[i].v)
    THEN Ok([i \in 1..Len(d) |-> [k |-> d[i].k, v |-> IntV(d[i].v.i + 1)]])
    ELSE Raised("TypeError")

\* the shift applied on every call, whether or not the map holds index 0
set_types_always_shifts(d) == shift_types(d)

\* DeepMD.set_types on self._type_map: lammps type indexing starts at 1
set_types(d) == IF IntV(0) \in Values(d) THEN shift_types(d) ELSE Ok(d)

\* read_dump's table from type index to symbol
dump_type_map(tm) ==
  LET r == read_type_map(DictInput(tm))
      local == IF IntV(0) \in Values(r.map) THEN shift_types(r.map) ELSE r
  IN IF local.err # "none" THEN local ELSE Ok(invert(local.map))

\* the explicit mappings supplied: items written symbol -> index or
\* index -> symbol, with pairwise distinct keys
MapItems ==
  {[k |-> StrV(t), v |-> IntV(i)] : t \in MapStrings, i \in 0..MaxIndex} \cup
  {[k |-> IntV(i), v |-> StrV(t)] : t \in MapStrings, i \in 0..MaxIndex}

ExplicitMaps ==
  {m \in SeqsUpTo(MapItems, MaxTypes) :
     /\ Len(m) >= 1
     /\ \A i, j \in 1..Len(m) : i # j => m[i].k # m[j].k}

NoResult == Raised("unread")

\* a caller supplies an explicit mapping
GiveTypeMap(m) ==
  /\ tm_pc = "none"
  /\ tm_given' = m
  /\ tm_pc' = "given"
  /\ UNCHANGED <<tm_form, tm_out, calc_type_map, calc_calls, dump_types>>
  /\ UNCHANGED <<sampleVars, buildVars, runVars, processVars, ensembleVars, cliVars>>

\* read_type_map on the mapping in one of its forms
ReadTypeMap(form) ==
  /\ tm_pc = "given"
  /\ tm_form' = form
  /\ tm_out' = read_type_map(AsInput(tm_given, form))
  /\ tm_pc' = "read"
  /\ UNCHANGED <<tm_given, calc_type_map, calc_calls, dump_types>>
  /\ UNCHANGED <<sampleVars, buildVars, runVars, processVars, ensembleVars, cliVars>>

\* LmpCalc.__init__: self._type_map = read_type_map(type_map)
NewCalculator ==
  /\ tm_pc = "read" /\ tm_out.err = "none"
  /\ calc_type_map' = read_type_map(DictInput(tm_out.map)).map
  /\ calc_calls' = 0
  /\ tm_pc' = "calc"
  /\ UNCHANGED <<tm_given, tm_form, tm_out, dump_types>>
  /\ UNCHANGED <<sampleVars, buildVars, runVars, processVars, ensembleVars, cliVars>>

\* calculate() -> write_input() -> set_atoms() -> set_types()
Calculate ==
  /\ tm_pc = "calc" /\ calc_calls < MaxCalls
  /\ LET r == set_types(calc_type_map)
     IN IF r.err = "none"
          THEN calc_type_map' = r.map /\ calc_calls' = calc_calls + 1
               /\ tm_pc' = "calc"
          ELSE tm_pc' = "TypeError" /\ UNCHANGED <<calc_type_map, calc_calls>>
  /\ UNCHANGED <<tm_given, tm_form, tm_out, dump_types>>
  /\ UNCHANGED <<sampleVars, buildVars, runVars, processVars, ensembleVars, cliVars>>

\* read_dump(dump, type_map): the conversion of its type_map argument
ReadDump ==
  /\ tm_pc = "read" /\ tm_out.err = "none" /\ dump_types = NoResult
  /\ dump_types' = dump_type_map(tm_out.map)
  /\ UNCHANGED <<tm_given, tm_form, tm_out, calc_type_map, calc_calls, tm_pc>>
  /\ UNCHANGED <<sampleVars, buildVars, runVars, processVars, ensembleVars, cliVars>>

InitTypeMap ==
  /\ tm_given = <<>> /\ tm_form = "none" /\ tm_out = NoResult
  /\ calc_type_map = <<>> /\ calc_calls = 0 /\ dump_types = NoResult
  /\ tm_pc = "none"

\* the mapping and everything derived from it are dropped
ForgetTypeMap ==
  /\ tm_pc # "none"
  /\ tm_given' = <<>> /\ tm_form' = "none" /\ tm_out' = NoResult
  /\ calc_type_map' = <<>> /\ calc_calls' = 0 /\ dump_types' = NoResult
  /\ tm_pc' = "none"
  /\ UNCHANGED <<sampleVars, buildVars, runVars, processVars, ensembleVars, cliVars>>

NextTypeMap ==
  \/ tm_pc = "none" /\ \E m \in ExplicitMaps : GiveTypeMap(m)
  \/ \E form \in Forms : ReadTypeMap(form)
  \/ NewCalculator
  \/ Calculate
  \/ ReadDump
  \/ ForgetTypeMap

(***************************************************************************)
(* CommandBuilder: dptools/simulate/simulations.py                         *)
(*                                                                         *)
(* A command is the text of its f-string with {} for each embedded value,  *)
(* and the values embedded, in order.  Numbers are integers in the unit of *)
(* the parameter's default: ftol in 1e-3, timestep in 0.1 fs, delta in     *)
(* 1e-3, the EOS lo and hi in 1e-2; opt_type and molecule are numbered.    *)
(***************************************************************************)
Cmd(text, args) == [text |-> text, args |-> args]

\* the keys of the Simulations dict
CalcTypes == {"spe", "opt", "cellopt", "nvt-md", "npt-md", "eos", "vib", "gcmc"}

\* the parameters of all setup and get_commands methods, and two that none has:
\* a seed and a misspelt ftol
ParamKeys ==
  {"disp_freq", "nsw", "ftol", "etol", "opt_type", "Ptarget", "steps",
   "timestep", "equil_steps", "Ti", "Tf", "Pi", "Pf", "pre_opt", "write_freq",
   "N", "lo", "hi", "nfree", "delta", "molecule", "pre_opt_mol", "n_ex",
   "n_mc", "T", "P", "dmax", "seed", "ftoll"}

\* a keyword argument taken by name, or its default
Arg(kw, name, default) == IF name \in DOMAIN kw THEN kw[name] ELSE default

\* **kwargs: what is left after the named parameters
Rest(kw, names) == [k \in (DOMAIN kw) \ names |-> kw[k]]

\* Simulation._warn_unused: one line per key of kwargs
warn_unused(calc_type, kw) ==
  SetToBag({[key |-> k, val |-> kw[k], calc_type |-> calc_type] : k \in DOMAIN kw})

\* the commands that define a dump, then the others
DumpsFirst(commands) ==
  SelectSeq(commands, LAMBDA c : c.text \in
    {"dump 1 all custom {} nvt.dump id type x y z",
     "dump 1 all custom {} npt.dump id type x y z"}) \o
  SelectSeq(commands, LAMBDA c : c.text \notin
    {"dump 1 all custom {} nvt.dump id type x y z",
     "dump 1 all custom {} npt.dump id type x y z"})

\* the dump is defined before anything is run
Built_dump_first(commands, warnings) ==
  [commands |-> DumpsFirst(commands), warnings |-> warnings]

Built(commands, warnings) == [commands |-> commands, warnings |-> warnings]

\* SPE.get_commands
SPE_get_commands(calc_type, kw) ==
  Built(<<Cmd("run 0", <<>>)>>, warn_unused(calc_type, kw))

\* the engine's step budget is the iteration count itself
Opt_get_commands_budget_nsw(calc_type, kw) ==
  LET nsw == Arg(kw, "nsw", 1000)
      ftol == Arg(kw, "ftol", 10)
      etol == Arg(kw, "etol", 0)
      disp_freq == Arg(kw, "disp_freq", 10)
  IN Built(<<Cmd("thermo {}", <<disp_freq>>),
             Cmd("min_modify norm max", <<>>),
             Cmd("minimize {} {} {} {}", <<etol, ftol, nsw, nsw>>)>>,
           warn_unused(calc_type, Rest(kw, {"nsw", "ftol", "etol", "disp_freq"})))

\* Opt.get_commands
Opt_get_commands(calc_type, kw) ==
  LET nsw == Arg(kw, "nsw", 1000)
      ftol == Arg(kw, "ftol", 10)
      etol == Arg(kw, "etol", 0)
      disp_freq == Arg(kw, "disp_freq", 10)
  IN Built(<<Cmd("thermo {}", <<disp_freq>>),
             Cmd("min_modify norm max", <<>>),
             Cmd("minimize {} {} {} {}", <<etol, ftol, nsw, nsw * 10>>)>>,
           warn_unused(calc_type, Rest(kw, {"nsw", "ftol", "etol", "disp_freq"})))

\* the cell-relaxation fix is left open
CellOpt_get_commands_no_unfix(calc_type, kw) ==
  LET nsw == Arg(kw, "nsw", 1000)
      ftol == Arg(kw, "ftol", 10)
      etol == Arg(kw, "etol", 0)
      opt_type == Arg(kw, "opt_type", 1)
      Ptarget == Arg(kw, "Ptarget", 0)
      disp_freq == Arg(kw, "disp_freq", 10)
  IN Built(<<Cmd("thermo {}", <<disp_freq>>),
             Cmd("min_modify norm max", <<>>),
             Cmd("fix cellopt all box/relax {} {}", <<opt_type, Ptarget>>),
             Cmd("minimize {} {} {} {}", <<etol, ftol, nsw, nsw * 10>>)>>,
           warn_unused(calc_type,
             Rest(kw, {"nsw", "ftol", "etol", "opt_type", "Ptarget", "disp_freq"})))

\* CellOpt.get_commands
CellOpt_get_commands(calc_type, kw) ==
  LET nsw == Arg(kw, "nsw", 1000)
      ftol == Arg(kw, "ftol", 10)
      etol == Arg(kw, "etol", 0)
      opt_type == Arg(kw, "opt_type", 1)
      Ptarget == Arg(kw, "Ptarget", 0)
      disp_freq == Arg(kw, "disp_freq", 10)
  IN Built(<<Cmd("thermo {}", <<disp_freq>>),
             Cmd("min_modify norm max", <<>>),
             Cmd("fix cellopt all box/relax {} {}", <<opt_type, Ptarget>>),
             Cmd("minimize {} {} {} {}", <<etol, ftol, nsw, nsw * 10>>),
             Cmd("unfix cellopt", <<>>)>>,
           warn_unused(calc_type,
             Rest(kw, {"nsw", "ftol", "etol", "opt_type", "Ptarget", "disp_freq"})))

\* timestep * 1e-3: a time in units of 1e-4 ps from one in units of 0.1 fs
fs_to_ps(timestep) == [mantissa |-> timestep, exponent |-> -4]

\* NVT.get_commands; sd is the value seed() returns
NVT_get_commands(calc_type, kw, sd) ==
  LET steps == Arg(kw, "steps", 10000)
      timestep == fs_to_ps(Arg(kw, "timestep", 5))
      Ti == Arg(kw, "Ti", 298)
      Tf == Arg(kw, "Tf", 298)
      equil_steps == Arg(kw, "equil_steps", 1000)
      write_freq == Arg(kw, "write_freq", 100)
      disp_freq == Arg(kw, "disp_freq", 100)
  IN Built(<<Cmd("thermo {}", <<disp_freq>>),
             Cmd("variable\tdt\tequal\t0.5e-3", <<>>),
             Cmd("variable\ttdamp\tequal 100*${dt}", <<>>),
             Cmd("run_style verlet", <<>>),
             Cmd("timestep ${dt}", <<>>),
             Cmd("velocity all create {} {} rot yes mom yes dist gaussian", <<Ti, sd>>),
             Cmd("fix equil all nvt temp {} {} ${tdamp}", <<Ti, Ti>>),
             Cmd("run {}", <<equil_steps>>),
             Cmd("unfix equil", <<>>),
             Cmd("fix nvt_prod all nvt temp {} {} ${tdamp}", <<Ti, Tf>>),
             Cmd("dump 1 all custom {} nvt.dump id type x y z", <<write_freq>>),
             Cmd("run {}", <<steps>>)>>,
           warn_unused(calc_type,
             Rest(kw, {"steps", "timestep", "Ti", "Tf", "equil_steps",
                       "write_freq", "disp_freq"})))

\* NPT.get_commands
NPT_get_commands(calc_type, kw, sd) ==
  LET steps == Arg(kw, "steps", 10000)
      timestep == fs_to_ps(Arg(kw, "timestep", 5))
      Pi == Arg(kw, "Pi", 0)
      Pf == Arg(kw, "Pf", 0)
      Ti == Arg(kw, "Ti", 298)
      Tf == Arg(kw, "Tf", 298)
      equil_steps == Arg(kw, "equil_steps", 1000)
      write_freq == Arg(kw, "write_freq", 100)
      disp_freq == Arg(kw, "disp_freq", 100)
  IN Built(<<Cmd("thermo {}", <<disp_freq>>),
             Cmd("variable\tdt\tequal\t0.5e-3", <<>>),
             Cmd("variable\tpdamp\tequal 1000*${dt}", <<>>),
             Cmd("variable\ttdamp\tequal 100*${dt}", <<>>),
             Cmd("run_style verlet", <<>>),
             Cmd("timestep ${dt}", <<>>),
             Cmd("velocity all create {} {} rot yes mom yes dist gaussian", <<Ti, sd>>),
             Cmd("fix equil all npt temp {} {} ${tdamp} tri {} {} ${pdamp}",
                 <<Ti, Ti, Pi, Pi>>),
             Cmd("run {}", <<equil_steps>>),
             Cmd("unfix equil", <<>>),
             Cmd("fix npt_prod all npt temp {} {} ${tdamp} tri {} {} ${pdamp}",
                 <<Ti, Tf, Pi, Pf>>),
             Cmd("dump 1 all custom {} npt.dump id type x y z", <<write_freq>>),
             Cmd("run {}", <<steps>>)>>,
           warn_unused(calc_type,
             Rest(kw, {"steps", "timestep", "Pi", "Pf", "Ti", "Tf", "equil_steps",
                       "write_freq", "disp_freq"})))

\* EOS.get_commands: its own warnings, then Opt.get_commands(self, ...)
EOS_get_commands(calc_type, kw) ==
  LET nsw == Arg(kw, "nsw", 300)
      ftol == Arg(kw, "ftol", 1)
      etol == Arg(kw, "etol", 0)
      disp_freq == Arg(kw, "disp_freq", 10)
      own == warn_unused(calc_type, Rest(kw, {"nsw", "ftol", "etol", "disp_freq"}))
      opt == Opt_get_commands(calc_type,
               [k \in {"nsw", "ftol", "etol", "disp_freq"} |->
                  CASE k = "nsw" -> nsw
                    [] k = "ftol" -> ftol
                    [] k = "etol" -> etol
                    [] OTHER -> disp_freq])
  IN Built(opt.commands, own (+) opt.warnings)

\* Vib.get_commands
Vib_get_commands(calc_type, kw) ==
  LET delta == Arg(kw, "delta", 15)
  IN Built(<<Cmd("dynamical_matrix all eskm {} file dynmat.dat", <<delta>>)>>,
           warn_unused(calc_type, Rest(kw, {"delta"})))

\* GCMC.get_commands; mol is self._mol, set by setup from molecule
GCMC_get_commands(calc_type, kw, sd, mol) ==
  LET steps == Arg(kw, "steps", 100)
      n_ex == Arg(kw, "n_ex", 10)
      n_mc == Arg(kw, "n_mc", 10)
      T == Arg(kw, "T", 298)
      P == Arg(kw, "P", 1)
      dmax == Arg(kw, "dmax", 1)
      equil_steps == Arg(kw, "equil_steps", 0)
      write_freq == Arg(kw, "write_freq", 1)
      disp_freq == Arg(kw, "disp_freq", 5)
  IN Built(<<Cmd("compute_modify  thermo_temp dynamic/dof yes", <<>>),
             Cmd("molecule mol mol.{}", <<mol>>),
             Cmd("group {} molecule 0", <<mol>>),
             Cmd("fix dpgcmc {} gcmc 1 {} {} 0 {} {} 0.0 {} mol mol pressure {} full_energy",
                 <<mol, n_ex, n_mc, sd, T, dmax, P>>),
             Cmd("thermo {}", <<disp_freq>>),
             Cmd("run {}", <<equil_steps>>),
             Cmd("dump 1 all custom {} gcmc.dump id type x y z", <<write_freq>>),
             Cmd("run {}", <<steps>>)>>,
           warn_unused(calc_type,
             Rest(kw, {"steps", "n_ex", "n_mc", "T", "P", "dmax", "equil_steps",
                       "write_freq", "disp_freq"})))

\* the named parameters of each class's setup method
setup_args(calc_type) ==
  CASE calc_type \in {"nvt-md", "npt-md", "vib"} -> {"pre_opt"}
    [] calc_type = "eos" -> {"N", "lo", "hi", "pre_opt"}
    [] calc_type = "gcmc" -> {"molecule", "pre_opt", "pre_opt_mol"}
    [] OTHER -> {}

\* the value drawn for the seed is also taken for the initial temperature
setup_commands_seed_as_Ti(calc_type, kw, sd) ==
  LET rest == Rest(kw, setup_args(calc_type))
      seeded == [k \in DOMAIN rest \cup {"Ti"} |-> IF k = "Ti" THEN sd ELSE rest[k]]
  IN CASE calc_type = "spe" -> SPE_get_commands(calc_type, rest)
       [] calc_type = "opt" -> Opt_get_commands(calc_type, rest)
       [] calc_type = "cellopt" -> CellOpt_get_commands(calc_type, rest)
       [] calc_type = "nvt-md" -> NVT_get_commands(calc_type, seeded, sd)
       [] calc_type = "npt-md" -> NPT_get_commands(calc_type, seeded, sd)
       [] calc_type = "eos" -> EOS_get_commands(calc_type, rest)
       [] calc_type = "vib" -> Vib_get_commands(calc_type, rest)
       [] OTHER -> GCMC_get_commands(calc_type, rest, sd, Arg(kw, "molecule", 0))

\* setup: self.commands = self.get_commands(**kwargs), kwargs being what
\* setup's own named parameters leave over
setup_commands(calc_type, kw, sd) ==
  LET rest == Rest(kw, setup_args(calc_type))
  IN CASE calc_type = "spe" -> SPE_get_commands(calc_type, rest)
       [] calc_type = "opt" -> Opt_get_commands(calc_type, rest)
       [] calc_type = "cellopt" -> CellOpt_get_commands(calc_type, rest)
       [] calc_type = "nvt-md" -> NVT_get_commands(calc_type, rest, sd)
       [] calc_type = "npt-md" -> NPT_get_commands(calc_type, rest, sd)
       [] calc_type = "eos" -> EOS_get_commands(calc_type, rest)
       [] calc_type = "vib" -> Vib_get_commands(calc_type, rest)
       [] OTHER -> GCMC_get_commands(calc_type, rest, sd, Arg(kw, "molecule", 0))

\* the values seed() can return to the builders that call it; b_seed stays
\* 0 for the others
SeedsDrawn(calc_type) ==
  IF calc_type \in {"nvt-md", "npt-md", "gcmc"} THEN 0..MaxSeed ELSE {0}

\* the parameter sets supplied: at most MaxParams keys, values 0 .. MaxValue
ParamSets == UNION {[K -> 0..MaxValue] : K \in SubsetsUpTo(ParamKeys, MaxParams)}

\* Simulations[calc_type](atoms, graph, type_map, **params): the commands built
Build(calc_type, kw, sd) ==
  /\ b_pc = "none"
  /\ b_type' = calc_type
  /\ b_kwargs' = kw
  /\ b_seed' = sd
  /\ b_commands' = setup_commands(calc_type, kw, sd).commands
  /\ b_warnings' = setup_commands(calc_type, kw, sd).warnings
  /\ b_pc' = "built"
  /\ UNCHANGED <<sampleVars, typeMapVars, runVars, processVars, ensembleVars, cliVars>>

\* the simulation object is dropped
BuildDone ==
  /\ b_pc = "built"
  /\ b_type' = "none" /\ b_kwargs' = <<>> /\ b_seed' = 0
  /\ b_commands' = <<>> /\ b_warnings' = EmptyBag
  /\ b_pc' = "none"
  /\ UNCHANGED <<sampleVars, typeMapVars, runVars, processVars, ensembleVars, cliVars>>

InitBuild ==
  /\ b_type = "none" /\ b_kwargs = <<>> /\ b_seed = 0
  /\ b_commands = <<>> /\ b_warnings = EmptyBag
  /\ b_pc = "none"

NextBuild ==
  \/ /\ b_pc = "none"
     /\ \E calc_type \in CalcTypes, kw \in ParamSets :
          \E sd \in SeedsDrawn(calc_type) : Build(calc_type, kw, sd)
  \/ BuildDone

(***************************************************************************)
(* SimulationRunner: dptools/cli/run.py, dptools/simulate/simulations.py   *)
(*                                                                         *)
(* A structure list is known by its length, a structure by its position.   *)
(***************************************************************************)
\* Simulation.pre_opt: the commands of the quick optimization
pre_opt(calc_type, nsw, cell, ftol) ==
  LET kw == [k \in {"nsw", "ftol"} |-> IF k = "nsw" THEN nsw ELSE ftol]
  IN IF cell THEN CellOpt_get_commands(calc_type, kw).commands
     ELSE Opt_get_commands(calc_type, kw).commands

\* the self.pre_opt(...) call of each class's setup
pre_opt_commands(calc_type) ==
  CASE calc_type = "nvt-md" -> pre_opt(calc_type, 200, FALSE, 10)
    [] calc_type = "vib" -> pre_opt(calc_type, 200, FALSE, 1)
    [] OTHER -> pre_opt(calc_type, 200, TRUE, 10)

\* setup's `if pre_opt:`; the default is False for GCMC and True elsewhere
wants_pre_opt(calc_type, kw) ==
  /\ "pre_opt" \in setup_args(calc_type)
  /\ Arg(kw, "pre_opt", IF calc_type = "gcmc" THEN 0 ELSE 1) # 0

\* the quick optimization post-processes its structures as every run does
pre_opt_process_default == TRUE

\* pre_opt: Simulation.run(self, process=False, commands=commands)
pre_opt_process == FALSE

\* EOS.set_volumes replaces the structure by N scaled copies of it
set_volumes(calc_type, kw, natoms) ==
  IF calc_type = "eos" THEN Arg(kw, "N", 5) ELSE natoms

\* one engine handle serves every structure
new_handle_reused(log) == 1

\* DeepMD(...) with lmp=None: LmpCalc.__init__ opens a handle of its own,
\* lammps.lammps(); handles are numbered in the order they are opened
new_handle(log) == Len(SelectSeq(log, LAMBDA e : e.op = "exec")) + 1

\* what calculate() sends to self.lmp: write_input clears the handle and
\* loads in.atoms, then each command of run_command is sent
lmp_calls(run_command) ==
  <<Cmd("clear", <<>>), Cmd("file in.atoms", <<>>)>> \o run_command

\* one call made on the engine handle: lmp.command(text), lmp.file(name)
\* with the commands the file holds when it is loaded, or an extraction
LmpCall(call, cmds) == [call |-> call, cmds |-> cmds]

\* in.atoms as LammpsInput.write leaves it: the general setup commands,
\* opened with "w", so nothing of an earlier calculation is left in it
SetupInput == <<Cmd("units\t\tmetal", <<>>), Cmd("read_data\tdata.atoms", <<>>)>>

\* the run commands are appended to in.atoms before the engine loads it
write_input_appended_first(run_command) ==
  [lmp |-> <<LmpCall("command", <<Cmd("clear", <<>>)>>),
             LmpCall("file", SetupInput \o run_command)>>,
   disk |-> SetupInput \o run_command]

\* DeepMD.write_input: in.atoms is written, the handle cleared, the file
\* loaded, and then the run commands appended to the file on disk
write_input(run_command) ==
  [lmp |-> <<LmpCall("command", <<Cmd("clear", <<>>)>>),
             LmpCall("file", SetupInput)>>,
   disk |-> SetupInput \o run_command]

\* LmpCalc.calculate with update: write_input, each command of run_command
\* sent in order, then ids, positions, energy, forces and stress read back
calculate_calls(run_command) ==
  [lmp |-> write_input(run_command).lmp
             \o [k \in 1..Len(run_command) |-> LmpCall("command", <<run_command[k]>>)]
             \o <<LmpCall("extract", <<>>)>>,
   disk |-> write_input(run_command).disk]

Exec(job, call, idx, commands, handle) ==
  [op |-> "exec", job |-> job, call |-> call, idx |-> idx, commands |-> commands,
   handle |-> handle, lmp |-> lmp_calls(commands), calc |-> calculate_calls(commands)]

Process(job, call) ==
  [op |-> "process", job |-> job, call |-> call, idx |-> 0, commands |-> <<>>,
   handle |-> 0, lmp |-> <<>>, calc |-> [lmp |-> <<>>, disk |-> <<>>]]

\* the end of Simulation.run: `if process: self.process(file_out=file_out)`
run_tail(process, job, call, log) ==
  IF process THEN Append(log, Process(job, call)) ELSE log

\* the error is logged and the loop goes on to the next structure
on_engine_error_continue(i) == [pc |-> "loop", i |-> i + 1]

\* an exception of atoms.get_potential_energy(): neither Simulation.run nor
\* CLI.run handles it, so it leaves both loops
on_engine_error(i) == [pc |-> "raised", i |-> i]

NoFailure == [job |-> 0, call |-> "none", idx |-> 0]

NoRun == [type |-> "none", njobs |-> 0, natoms |-> 0, kw |-> <<>>,
          process |-> FALSE, seed |-> 0]

\* params of a run that reach setup: pre_opt and N, each given or not
RunParamSets ==
  {Rest([k \in {"pre_opt", "N"} |-> IF k = "pre_opt" THEN p ELSE m], drop) :
     p \in 0..1, m \in 1..MaxStructures, drop \in SUBSET {"pre_opt", "N"}}

\* EOS.set_volumes and Vib.run unpack a list of exactly one structure
StructureCounts(calc_type) ==
  IF calc_type \in {"eos", "vib"} THEN {1} ELSE 1..MaxStructures

\* CLI.run is entered (or, with process=False, Simulation.run is driven
\* through the API) on njobs inputs of natoms structures each
CLIRun(calc_type, njobs, natoms, kw, process, sd) ==
  /\ r_pc = "none"
  /\ r_in' = [type |-> calc_type, njobs |-> njobs, natoms |-> natoms, kw |-> kw,
              process |-> process, seed |-> sd]
  /\ r_job' = 1
  /\ r_pc' = "construct"
  /\ UNCHANGED <<r_atoms, r_call, r_process, r_commands, r_i, r_log, r_failed>>
  /\ UNCHANGED <<sampleVars, typeMapVars, buildVars, processVars, ensembleVars, cliVars>>

\* Simulations[calc_type](atoms, ...): __init__ and setup, up to the loop
\* of pre_opt if there is one, to the end of setup otherwise
Construct ==
  /\ r_pc = "construct"
  /\ IF wants_pre_opt(r_in.type, r_in.kw)
       THEN /\ r_atoms' = r_in.natoms
            /\ r_call' = "pre_opt"
            /\ r_process' = pre_opt_process
            /\ r_commands' = pre_opt_commands(r_in.type)
            /\ r_pc' = "loop"
       ELSE /\ r_atoms' = set_volumes(r_in.type, r_in.kw, r_in.natoms)
            /\ r_call' = "none"
            /\ r_process' = FALSE
            /\ r_commands' = <<>>
            /\ r_pc' = "constructed"
  /\ r_i' = 0
  /\ UNCHANGED <<r_in, r_job, r_log, r_failed>>
  /\ UNCHANGED <<sampleVars, typeMapVars, buildVars, processVars, ensembleVars, cliVars>>

\* one iteration of `for atoms in self.atoms`: the engine runs the commands
Execute ==
  /\ r_pc = "loop"
  /\ r_i < r_atoms
  /\ r_log' = Append(r_log, Exec(r_job, r_call, r_i + 1, r_commands, new_handle(r_log)))
  /\ r_i' = r_i + 1
  /\ UNCHANGED <<r_in, r_job, r_atoms, r_call, r_process, r_commands, r_pc, r_failed>>
  /\ UNCHANGED <<sampleVars, typeMapVars, buildVars, processVars, ensembleVars, cliVars>>

\* one iteration in which the engine raises
EngineRaises ==
  /\ r_pc = "loop"
  /\ r_i < r_atoms
  /\ r_failed' = [job |-> r_job, call |-> r_call, idx |-> r_i + 1]
  /\ r_pc' = on_engine_error(r_i).pc
  /\ r_i' = on_engine_error(r_i).i
  /\ UNCHANGED <<r_in, r_job, r_atoms, r_call, r_process, r_commands, r_log>>
  /\ UNCHANGED <<sampleVars, typeMapVars, buildVars, processVars, ensembleVars, cliVars>>

\* the run of pre_opt returns; pre_opt.traj is written and setup completes
PreOptReturn ==
  /\ r_pc = "loop"
  /\ r_call = "pre_opt"
  /\ r_i = r_atoms
  /\ r_log' = run_tail(r_process, r_job, r_call, r_log)
  /\ r_atoms' = set_volumes(r_in.type, r_in.kw, r_in.natoms)
  /\ r_call' = "none"
  /\ r_pc' = "constructed"
  /\ UNCHANGED <<r_in, r_job, r_process, r_commands, r_i, r_failed>>
  /\ UNCHANGED <<sampleVars, typeMapVars, buildVars, processVars, ensembleVars, cliVars>>

\* sim.run(): the loop over self.atoms is entered with self.commands;
\* Vib.run takes no process argument and always calls process()
SimRun ==
  /\ r_pc = "constructed"
  /\ r_call' = "run"
  /\ r_process' = (r_in.type = "vib" \/ r_in.process)
  /\ r_commands' = setup_commands(r_in.type, r_in.kw, r_in.seed).commands
  /\ r_i' = 0
  /\ r_pc' = "loop"
  /\ UNCHANGED <<r_in, r_job, r_atoms, r_log, r_failed>>
  /\ UNCHANGED <<sampleVars, typeMapVars, buildVars, processVars, ensembleVars, cliVars>>

\* sim.run() returns; CLI.run goes on to its next input or returns
RunReturn ==
  /\ r_pc = "loop"
  /\ r_call = "run"
  /\ r_i = r_atoms
  /\ r_log' = run_tail(r_process, r_job, r_call, r_log)
  /\ IF r_job < r_in.njobs
       THEN r_job' = r_job + 1 /\ r_pc' = "construct"
       ELSE r_job' = r_job /\ r_pc' = "done"
  /\ UNCHANGED <<r_in, r_atoms, r_call, r_process, r_commands, r_i, r_failed>>
  /\ UNCHANGED <<sampleVars, typeMapVars, buildVars, processVars, ensembleVars, cliVars>>

InitRun ==
  /\ r_in = NoRun
  /\ r_job = 0 /\ r_atoms = 0 /\ r_call = "none" /\ r_process = FALSE
  /\ r_commands = <<>> /\ r_i = 0 /\ r_pc = "none"
  /\ r_log = <<>> /\ r_failed = NoFailure

NextRun ==
  \/ /\ r_pc = "none"
     /\ \E calc_type \in CalcTypes, njobs \in 1..MaxJobs, kw \in RunParamSets,
           process \in BOOLEAN, sd \in 0..MaxSeed :
          \E natoms \in StructureCounts(calc_type) :
            CLIRun(calc_type, njobs, natoms, kw, process, sd)
  \/ Construct
  \/ Execute
  \/ EngineRaises
  \/ PreOptReturn
  \/ SimRun
  \/ RunReturn

(***************************************************************************)
(* Post-processing: EOS.set_volumes, EOS.process, Vib.process              *)
(*                                                                         *)
(* lo, hi and the volume factors are in units of 1e-2, exact as fractions; *)
(* a frequency is in units of conversion / (2 pi) cm-1.                    *)
(***************************************************************************)
Fraction(p, q) == [num |-> p, den |-> q]

\* np.linspace(lo, hi, N): start + k * step with step = (hi - lo) / (N - 1),
\* the last entry set to hi when N > 1
linspace(start, stop, N) ==
  [k \in 1..N |->
     IF N > 1 /\ k = N THEN Fraction(stop, 1)
     ELSE IF N = 1 THEN Fraction(start, 1)
     ELSE Fraction((k - 1) * (stop - start) + start * (N - 1), N - 1)]

\* new_atoms.set_cell(atoms.cell.array * v ** (1 / 3), scale_atoms=True):
\* the cell of volume V0 with each edge scaled by the cube root of v
scale_cell(V0, v) == [volume0 |-> V0, edge_cubed |-> v]

\* Atoms.get_volume of such a cell
get_volume(cell) ==
  Fraction(cell.volume0 * cell.edge_cubed.num, cell.edge_cubed.den)

\* the input structure is kept in front of its scaled copies
EOS_set_volumes_keeps_input(V0, lo_, hi_, N) ==
  <<scale_cell(V0, Fraction(100, 1))>> \o
    [k \in 1..N |-> scale_cell(V0, linspace(lo_, hi_, N)[k])]

\* EOS.set_volumes: self.atoms becomes the N scaled copies
EOS_set_volumes(V0, lo_, hi_, N) ==
  [k \in 1..N |-> scale_cell(V0, linspace(lo_, hi_, N)[k])]

\* columnize(volumes, energies)
columnize(volumes, energies) ==
  [k \in 1..Len(volumes) |-> <<volumes[k], energies[k]>>]

\* the RuntimeError of eos.fit() is not caught
EOS_process_fit_fatal(atoms, energies, fit) ==
  IF fit = "ok"
    THEN [pc |-> "processed", printed |-> {"BULK MODULUS"},
          files |-> [name \in {"file_out", "data.eos.npy"} |->
                       IF name = "file_out" THEN atoms
                       ELSE columnize([k \in 1..Len(atoms) |-> get_volume(atoms[k])],
                                      energies)]]
    ELSE [pc |-> "raised", printed |-> {}, files |-> <<>>]

\* EOS.process: fit in try / except RuntimeError, then the two writes
EOS_process(atoms, energies, fit) ==
  LET volumes == [k \in 1..Len(atoms) |-> get_volume(atoms[k])]
  IN [pc |-> "processed",
      printed |-> IF fit = "ok" THEN {"BULK MODULUS"}
                  ELSE {"Bad EOS fit, can not determined bulk modulus",
                        "Check energy versus volume data in data.eos.npy"},
      files |-> [name \in {"file_out", "data.eos.npy"} |->
                   IF name = "file_out" THEN atoms ELSE columnize(volumes, energies)]]

\* the values of lo and hi supplied: 0.96, 1.00, 1.04
VolumeFactors == {96, 100, 104}

\* the energies the engine returns
EnergyValues == {0, 1}

\* EOS.setup on a structure of cell volume V0
EOSSetup(V0, lo_, hi_, N) ==
  /\ eos_pc = "none"
  /\ eos_in' = [V0 |-> V0, lo |-> lo_, hi |-> hi_, N |-> N]
  /\ eos_atoms' = EOS_set_volumes(V0, lo_, hi_, N)
  /\ eos_pc' = "setup"
  /\ UNCHANGED <<eos_energies, eos_fit, eos_printed, eos_files>>
  /\ UNCHANGED <<vib_eig, vib_sorted, vib_freq, vib_pc>>
  /\ UNCHANGED <<sampleVars, typeMapVars, buildVars, runVars, ensembleVars, cliVars>>

\* the loop of Simulation.run leaves an energy on every structure
EOSRun(energies) ==
  /\ eos_pc = "setup"
  /\ Len(energies) = Len(eos_atoms)
  /\ eos_energies' = energies
  /\ eos_pc' = "ran"
  /\ UNCHANGED <<eos_in, eos_atoms, eos_fit, eos_printed, eos_files>>
  /\ UNCHANGED <<vib_eig, vib_sorted, vib_freq, vib_pc>>
  /\ UNCHANGED <<sampleVars, typeMapVars, buildVars, runVars, ensembleVars, cliVars>>

\* EOS.process, the fit succeeding or raising RuntimeError
EOSProcess(fit) ==
  /\ eos_pc = "ran"
  /\ eos_fit' = fit
  /\ eos_printed' = EOS_process(eos_atoms, eos_energies, fit).printed
  /\ eos_files' = EOS_process(eos_atoms, eos_energies, fit).files
  /\ eos_pc' = EOS_process(eos_atoms, eos_energies, fit).pc
  /\ UNCHANGED <<eos_in, eos_atoms, eos_energies>>
  /\ UNCHANGED <<vib_eig, vib_sorted, vib_freq, vib_pc>>
  /\ UNCHANGED <<sampleVars, typeMapVars, buildVars, runVars, ensembleVars, cliVars>>

\* the descending enumeration of a sequence of integers, repeats kept
RECURSIVE flip_sort(_)
flip_sort(s) ==
  IF s = <<>> THEN <<>>
  ELSE LET i == CHOOSE i \in 1..Len(s) : \A j \in 1..Len(s) : s[i] >= s[j]
       IN <<s[i]>> \o flip_sort(SubSeq(s, 1, i - 1) \o SubSeq(s, i + 1, Len(s)))

\* every mode is written as real
imag_filt_all_real(e) == 1

\* imag_filt: -1 if e < 0 else 1
imag_filt(e) == IF e < 0 THEN -1 ELSE 1

abs(x) == IF x < 0 THEN -x ELSE x

\* np.sqrt on the squares the eigenvalues range over
sqrt(x) == CHOOSE r \in 0..x : r * r = x

\* Vib.process: freq = sqrt(|eig_vals|) / (2 pi) * conversion * imag_filt
Vib_freq(eig_vals) ==
  [k \in 1..Len(eig_vals) |-> sqrt(abs(eig_vals[k])) * imag_filt(eig_vals[k])]

\* the eigenvalues of the dynamical matrix: squares, of either sign
EigValues == {-4, -1, 0, 1, 4}

\* Vib.process on the 3n eigenvalues of the dynamical matrix of n atoms
VibProcess(eig) ==
  /\ vib_pc = "none"
  /\ vib_eig' = eig
  /\ vib_sorted' = flip_sort(eig)
  /\ vib_freq' = Vib_freq(flip_sort(eig))
  /\ vib_pc' = "processed"
  /\ UNCHANGED <<eos_in, eos_atoms, eos_energies, eos_fit, eos_printed, eos_files, eos_pc>>
  /\ UNCHANGED <<sampleVars, typeMapVars, buildVars, runVars, ensembleVars, cliVars>>

InitProcess ==
  /\ eos_in = [V0 |-> 0, lo |-> 0, hi |-> 0, N |-> 0]
  /\ eos_atoms = <<>> /\ eos_energies = <<>> /\ eos_fit = "none"
  /\ eos_printed = {} /\ eos_files = <<>> /\ eos_pc = "none"
  /\ vib_eig = <<>> /\ vib_sorted = <<>> /\ vib_freq = <<>> /\ vib_pc = "none"

NextProcess ==
  \/ /\ eos_pc = "none" /\ vib_pc = "none"
     /\ \E V0 \in 1..MaxCellVolume, lo_ \in VolumeFactors, hi_ \in VolumeFactors,
           N \in 1..MaxVolumes : EOSSetup(V0, lo_, hi_, N)
  \/ /\ eos_pc = "setup"
     /\ \E energies \in SeqsOfLen(EnergyValues, Len(eos_atoms)) : EOSRun(energies)
  \/ \E fit \in {"ok", "RuntimeError"} : EOSProcess(fit)
  \/ /\ vib_pc = "none" /\ eos_pc = "none"
     /\ \E na \in 1..MaxAtoms : \E eig \in SeqsOfLen(EigValues, 3 * na) : VibProcess(eig)

(***************************************************************************)
(* SampleConfigs on an ensemble of any size: dptools/train/ensemble.py     *)
(***************************************************************************)
\* the constructor refuses an ensemble of fewer than two models
SampleConfigs_init_checked(graphs) ==
  IF graphs < 2 THEN [graphs |-> graphs, error |-> "InsufficientEnsembleError"]
  ELSE [graphs |-> graphs, error |-> "none"]

\* SampleConfigs.__init__ with a type_map: self.graphs = graphs, unchecked
SampleConfigs_init(graphs) == [graphs |-> graphs, error |-> "none"]

NoDev == [kind |-> "none", dev |-> <<>>, error |-> "none"]

\* the files an earlier run can have left as dev.npy
PriorCaches == {NoFile} \cup {[exists |-> TRUE, data |-> t] : t \in Trajectories}

\* calc_model_devi on fewer than two models is the inference library's
\* business: it returns an array or it raises; on two or more it returns
InferenceOutcomes(graphs) == IF graphs < 2 THEN {"array", "raises"} ELSE {"array"}

\* the working directory as an earlier run left it
PriorRun(c) ==
  /\ g_pc = "none"
  /\ g_prior' = c
  /\ g_cache' = c
  /\ g_pc' = "ready"
  /\ UNCHANGED <<g_graphs, g_inferred, g_result>>
  /\ UNCHANGED <<sampleVars, typeMapVars, buildVars, runVars, processVars, cliVars>>

\* SampleConfigs(configs, graphs, type_map).get_dev() on a trajectory
EnsembleGetDev(graphs, traj, outcome) ==
  /\ g_pc = "ready"
  /\ outcome \in InferenceOutcomes(graphs)
  /\ g_graphs' = SampleConfigs_init(graphs).graphs
  /\ LET init == SampleConfigs_init(graphs)
         g == get_dev(g_cache, traj)
     IN IF init.error # "none"
          THEN /\ g_result' = [kind |-> "error", dev |-> <<>>, error |-> init.error]
               /\ g_pc' = "raised"
               /\ UNCHANGED <<g_cache, g_inferred>>
          ELSE IF g.inferred.ran /\ outcome = "raises"
            THEN /\ g_result' = [kind |-> "error", dev |-> <<>>, error |-> "calc_model_devi"]
                 /\ g_inferred' = [ran |-> TRUE, out |-> <<>>]
                 /\ g_pc' = "raised"
                 /\ UNCHANGED g_cache
            ELSE /\ g_result' = [kind |-> "dev", dev |-> g.dev, error |-> "none"]
                 /\ g_inferred' = g.inferred
                 /\ g_cache' = g.cache
                 /\ g_pc' = "returned"
  /\ UNCHANGED g_prior
  /\ UNCHANGED <<sampleVars, typeMapVars, buildVars, runVars, processVars, cliVars>>

InitEnsemble ==
  /\ g_graphs = 0 /\ g_prior = NoFile /\ g_cache = NoFile
  /\ g_inferred = NotRun /\ g_result = NoDev /\ g_pc = "none"

NextEnsemble ==
  \/ g_pc = "none" /\ \E c \in PriorCaches : PriorRun(c)
  \/ /\ g_pc = "ready"
     /\ \E graphs \in 0..MaxModels, traj \in Trajectories, outcome \in {"array", "raises"} :
          EnsembleGetDev(graphs, traj, outcome)

(***************************************************************************)
(* `dptools run`: dptools/cli/run.py (CLI.main, set_params, submit_jobs,   *)
(* run), dptools/hpc.py (SlurmJob.write)                                   *)
(*                                                                         *)
(* A name is the sequence of its parts between dots: "opt.tight" is        *)
(* <<"opt", "tight">>.  The inputs are known by their positions.           *)
(***************************************************************************)
\* the keys of the Simulations dict
Registered == {<<t>> : t \in CalcTypes}

\* the names a calculation is asked for by
TypeNames == Registered \cup {<<"opt", "tight">>, <<"md">>, <<"md", "fast">>}

\* parameter_sets.yaml: the sets shipped, one per simulation, and those
\* set_parameter_set added, each stored under its own `type`
StoredSets == {Registered \cup X : X \in SUBSET {<<"opt", "tight">>, <<"md">>}}

\* every name is taken for a registered simulation
Simulations_has_any(calc_type) == TRUE

\* Simulations[self.calc_type] finds the class or raises KeyError
Simulations_has(calc_type) == calc_type \in CalcTypes

\* set_params: the parameter file's `type`, or that of param_sets[calc_arg],
\* up to its first dot
set_params(yaml, name, stored) ==
  IF ~yaml /\ name \notin stored
    THEN [err |-> "KeyError", calc_type |-> "none"]
    ELSE [err |-> "none", calc_type |-> Head(name)]

Event(op, d) == [op |-> op, d |-> d]

\* the scripts are written and none is submitted
SlurmJob_write_only(ndirs, sub) == [k \in 1..ndirs |-> Event("script", k)]

\* SlurmJob.write: each directory's script is written and, with sub,
\* submitted before the next one is written
SlurmJob_write(ndirs, sub) ==
  IF sub
    THEN [k \in 1..(2 * ndirs) |->
            IF k % 2 = 1 THEN Event("script", (k + 1) \div 2)
            ELSE Event("sbatch", k \div 2)]
    ELSE [k \in 1..ndirs |-> Event("script", k)]

NoArgs == [yaml |-> FALSE, name |-> <<>>, stored |-> {}, submit |-> FALSE,
           generate_input |-> FALSE, nstructures |-> 0]

\* CLI.main: set_params, set_structures, then submit_jobs to its end or
\* the entry of run
Main(yaml, name, stored, submit, generate_input, nstructures) ==
  /\ m_pc = "none"
  /\ m_args' = [yaml |-> yaml, name |-> name, stored |-> stored, submit |-> submit,
                generate_input |-> generate_input, nstructures |-> nstructures]
  /\ m_calc_type' = set_params(yaml, name, stored).calc_type
  /\ m_d' = 0
  /\ IF set_params(yaml, name, stored).err # "none"
       THEN m_pc' = "KeyError" /\ m_log' = m_log
       ELSE IF submit
         THEN m_pc' = "done" /\ m_log' = m_log \o SlurmJob_write(nstructures, TRUE)
         ELSE IF generate_input
           THEN m_pc' = "done" /\ m_log' = m_log \o SlurmJob_write(nstructures, FALSE)
           ELSE m_pc' = "run" /\ m_log' = m_log
  /\ UNCHANGED mainFrame

\* one iteration of CLI.run: the simulation is looked up, set up and run,
\* and its output written
RunStructure ==
  /\ m_pc = "run"
  /\ m_d < m_args.nstructures
  /\ IF Simulations_has(m_calc_type)
       THEN /\ m_log' = m_log \o <<Event("setup", m_d + 1), Event("engine", m_d + 1),
                                   Event("output", m_d + 1)>>
            /\ m_d' = m_d + 1
            /\ m_pc' = m_pc
       ELSE /\ m_pc' = "KeyError"
            /\ UNCHANGED <<m_log, m_d>>
  /\ UNCHANGED <<m_args, m_calc_type>>
  /\ UNCHANGED mainFrame

\* CLI.run returns
MainReturn ==
  /\ m_pc = "run"
  /\ m_d = m_args.nstructures
  /\ m_pc' = "done"
  /\ UNCHANGED <<m_args, m_calc_type, m_d, m_log>>
  /\ UNCHANGED mainFrame

InitMain ==
  /\ m_args = NoArgs /\ m_calc_type = "none" /\ m_d = 0
  /\ m_log = <<>> /\ m_pc = "none"

NextMain ==
  \/ /\ m_pc = "none"
     /\ \E yaml \in BOOLEAN, name \in TypeNames, stored \in StoredSets,
           submit \in BOOLEAN, generate_input \in BOOLEAN,
           nstructures \in 1..MaxJobs :
          Main(yaml, name, stored, submit, generate_input, nstructures)
  \/ RunStructure
  \/ MainReturn

(***************************************************************************)
(* Per-atom data read back from the engine: calculator.py (calculate,      *)
(* update_atoms), utils.py (read_dump)                                     *)
(*                                                                         *)
(* A coordinate or force vector is one integer.  The caller's atom k has   *)
(* engine id k.                                                            *)
(***************************************************************************)
\* the arrays are read back in the engine's order
argsort_none(ids) == [k \in 1..Len(ids) |-> k]

\* np.argsort(ids): sort[k] is the position of the k-th smallest id
argsort(ids) ==
  [k \in 1..Len(ids) |->
     CHOOSE j \in 1..Len(ids) :
       Cardinality({i \in 1..Len(ids) :
                      ids[i] < ids[j] \/ (ids[i] = ids[j] /\ i < j)}) = k - 1]

\* array[sort]
take(array, sort) == [k \in 1..Len(sort) |-> array[sort[k]]]

\* lmp.numpy.extract_atom(name), or a column of the dump: the engine's
\* order
extract_atom(ids, atoms, name) == [j \in 1..Len(ids) |-> atoms[ids[j]][name]]

\* read_dump's index -> symbol table for the type map {"Si": 0, "O": 1}
DumpSymbols == <<"Si", "O">>

\* calculate with update: update_atoms' shifted positions, then forces
calculate(ids, atoms, shift) ==
  LET sort == argsort(ids)
      positions == take(extract_atom(ids, atoms, "x"), sort)
  IN [positions |-> [k \in 1..Len(ids) |-> positions[k] - shift],
      forces |-> take(extract_atom(ids, atoms, "f"), sort)]

\* read_dump, one image of a dump of unscaled coordinates
read_dump(ids, atoms, shift) ==
  LET sort == argsort(ids)
      types == extract_atom(ids, atoms, "type")
      symbols == [j \in 1..Len(ids) |-> DumpSymbols[types[j]]]
      positions == [j \in 1..Len(ids) |-> extract_atom(ids, atoms, "x")[j] - shift]
  IN [positions |-> take(positions, sort), symbols |-> take(symbols, sort),
      tags |-> take(types, sort)]

\* the orders the engine can store ids 1 .. k in
StoredOrders(k) == {s \in [1..k -> 1..k] : \A i, j \in 1..k : s[i] = s[j] => i = j}

\* the coordinates and forces the engine can hold
Coords == {0, 1}

EngineAtom == [x : Coords, f : Coords, type : 1..Len(DumpSymbols)]

NoOutput == [positions |-> <<>>]

\* the engine has run: it holds the atoms in some order
EngineStores(ids, atoms, shift) ==
  /\ e_pc = "none"
  /\ e_ids' = ids /\ e_atoms' = atoms /\ e_shift' = shift
  /\ e_pc' = "stored"
  /\ UNCHANGED <<c_out, d_out>>
  /\ UNCHANGED dumpFrame

\* the part of LmpCalc.calculate under `if update:`
CalculateUpdate ==
  /\ e_pc = "stored"
  /\ c_out' = calculate(e_ids, e_atoms, e_shift)
  /\ e_pc' = "calculated"
  /\ UNCHANGED <<e_ids, e_atoms, e_shift, d_out>>
  /\ UNCHANGED dumpFrame

\* read_dump on the dump the engine wrote of these atoms
DumpRead ==
  /\ e_pc = "stored"
  /\ d_out' = read_dump(e_ids, e_atoms, e_shift)
  /\ e_pc' = "read"
  /\ UNCHANGED <<e_ids, e_atoms, e_shift, c_out>>
  /\ UNCHANGED dumpFrame

InitDump ==
  /\ e_ids = <<>> /\ e_atoms = <<>> /\ e_shift = 0
  /\ c_out = NoOutput /\ d_out = NoOutput /\ e_pc = "none"

NextDump ==
  \/ /\ e_pc = "none"
     /\ \E k \in 1..MaxEngineAtoms, shift \in Coords :
          \E ids \in StoredOrders(k), atoms \in [1..k -> EngineAtom] :
            EngineStores(ids, atoms, shift)
  \/ CalculateUpdate
  \/ DumpRead

(***************************************************************************)
(* `dptools train`: dptools/cli/train.py (CLI.main, setup, write_json,     *)
(* submit_jobs), dptools/utils.py (randomize_seed)                         *)
(*                                                                         *)
(* Of the training parameters only the three seeds are kept.               *)
(***************************************************************************)
\* ens_dirs of CLI.main
ens_dirs == <<"00", "01", "02", "03">>

\* self.dirs: the members' directories, or the training path itself
train_dirs(ensemble) == IF ensemble THEN ens_dirs ELSE <<"path">>

\* the seeds are left as the parameter file has them
randomize_seed_keep(in_json, seeds) == in_json

\* randomize_seed: the three draws of get_seed(n=3) are stored in the dict
\* passed in, and that dict is returned
randomize_seed(in_json, seeds) ==
  [in_json EXCEPT !.descriptor = seeds[1], !.fitting_net = seeds[2],
                  !.training = seeds[3]]

\* json.loads of the parameter file: the seeds it ships with
LoadedJson == [descriptor |-> 0, fitting_net |-> 0, training |-> 0]

\* what get_seed(n=3) can return
SeedDraws == [1..3 -> 0..MaxSeed]

NoTrain == [dataset |-> "none", ensemble |-> FALSE, submit |-> FALSE]

\* CLI.main up to the loop of setup
TrainMain(dataset, ensemble, submit) ==
  /\ t_pc = "none"
  /\ t_args' = [dataset |-> dataset, ensemble |-> ensemble, submit |-> submit]
  /\ IF dataset = "."
       THEN /\ t_pc' = "ValueError"
            /\ UNCHANGED <<t_dirs, t_json>>
       ELSE /\ t_pc' = "setup"
            /\ t_dirs' = train_dirs(ensemble)
            /\ t_json' = LoadedJson
  /\ UNCHANGED <<t_drawn, t_files, t_log>>
  /\ UNCHANGED trainFrame

\* one iteration of setup's loop: the shared dict is re-randomized and
\* json.dumps of it written to the directory's in.json
SetupMember(seeds) ==
  /\ t_pc = "setup"
  /\ Len(t_drawn) < Len(t_dirs)
  /\ t_json' = randomize_seed(t_json, seeds)
  /\ t_drawn' = Append(t_drawn, seeds)
  /\ t_files' = [d \in DOMAIN t_files \cup {t_dirs[Len(t_drawn) + 1]} |->
                   IF d = t_dirs[Len(t_drawn) + 1] THEN randomize_seed(t_json, seeds)
                   ELSE t_files[d]]
  /\ UNCHANGED <<t_args, t_dirs, t_log, t_pc>>
  /\ UNCHANGED trainFrame

\* setup returns
SetupReturn ==
  /\ t_pc = "setup"
  /\ Len(t_drawn) = Len(t_dirs)
  /\ t_pc' = "submit"
  /\ UNCHANGED <<t_args, t_dirs, t_json, t_drawn, t_files, t_log>>
  /\ UNCHANGED trainFrame

\* submit_jobs: jobs.write(sub=self._sub) on self.dirs
TrainSubmitJobs ==
  /\ t_pc = "submit"
  /\ t_log' = t_log \o SlurmJob_write(Len(t_dirs), t_args.submit)
  /\ t_pc' = "done"
  /\ UNCHANGED <<t_args, t_dirs, t_json, t_drawn, t_files>>
  /\ UNCHANGED trainFrame

InitTrain ==
  /\ t_args = NoTrain /\ t_dirs = <<>> /\ t_json = LoadedJson
  /\ t_drawn = <<>> /\ t_files = <<>> /\ t_log = <<>> /\ t_pc = "none"

NextTrain ==
  \/ /\ t_pc = "none"
     /\ \E dataset \in {".", "data"}, ensemble \in BOOLEAN, submit \in BOOLEAN :
          TrainMain(dataset, ensemble, submit)
  \/ /\ t_pc = "setup"
     /\ \E seeds \in SeedDraws : SetupMember(seeds)
  \/ SetupReturn
  \/ TrainSubmitJobs

(***************************************************************************)
(* The stored models and the ensemble `dptools sample` loads: env.py       *)
(* (set_model, clear_model, get_dpfaults), cli/set.py (CLI.main),          *)
(* cli/sample.py (load_ensemble)                                           *)
(***************************************************************************)
\* the keys of the env file that clear_model clears
ModelKeys ==
  {"DPTOOLS_TYPE_MAP", "DPTOOLS_MODEL", "DPTOOLS_MODEL2", "DPTOOLS_MODEL3",
   "DPTOOLS_MODEL4"}

\* the .pb files there are
ModelPaths == {"a.pb", "b.pb"}

\* graph2typemap followed by typemap2str: the "sym:index,..." string of a
\* model's type map
typemap_str(graph) == IF graph = "a.pb" THEN "Si:0,O:1" ELSE "H:0,O:1"

\* an env file without model entries, as clear_model leaves it
ClearedEnv == [k \in ModelKeys |-> "None"]

\* f"DPTOOLS_MODEL{n_model}": CLI.main of set passes no n_model for the
\* first path and i + 1 for the i-th of the others
model_key(i) ==
  CASE i = 1 -> "DPTOOLS_MODEL"
    [] i = 2 -> "DPTOOLS_MODEL2"
    [] i = 3 -> "DPTOOLS_MODEL3"
    [] OTHER -> "DPTOOLS_MODEL4"

\* `dptools set p1 p2 ...`: set_model clears the model entries on the first
\* path and stores its type map, then each path under its own key
set_models(paths) ==
  [k \in ModelKeys |->
     IF k = "DPTOOLS_TYPE_MAP" THEN typemap_str(paths[1])
     ELSE IF \E i \in 1..Len(paths) : model_key(i) = k
       THEN paths[CHOOSE i \in 1..Len(paths) : model_key(i) = k]
       ELSE "None"]

\* get_dpfaults(key="ensemble"): the values of its keys, in its order
get_dpfaults_ensemble(env) ==
  <<env["DPTOOLS_TYPE_MAP"], env["DPTOOLS_MODEL"], env["DPTOOLS_MODEL2"],
    env["DPTOOLS_MODEL3"], env["DPTOOLS_MODEL4"]>>

\* load_ensemble without a label: `*ensemble, self.type_map = defaults`
\* gives type_map the last entry and ensemble all the others; with paths,
\* the type map is read from the first model
load_ensemble(ensemble, env) ==
  IF Len(ensemble) <= 1
    THEN LET defaults == get_dpfaults_ensemble(env)
         IN [ensemble |-> SubSeq(defaults, 1, Len(defaults) - 1),
             type_map |-> [kind |-> "str", text |-> defaults[Len(defaults)]]]
    ELSE [ensemble |-> ensemble,
          type_map |-> [kind |-> "dict", text |-> typemap_str(ensemble[1])]]

NoTypeMap == [kind |-> "none", text |-> "None"]

\* `dptools set p1 ... pk`, at most four models
SetModels(paths) ==
  /\ l_pc = "none"
  /\ l_env = ClearedEnv
  /\ l_env' = set_models(paths)
  /\ UNCHANGED <<l_arg, l_ensemble, l_type_map, l_pc>>
  /\ UNCHANGED loadFrame

\* CLI.load_ensemble(args.model_ensemble); with a single label it calls
\* load, a name dptools.env does not define
LoadEnsemble(ensemble) ==
  /\ l_pc = "none"
  /\ l_arg' = ensemble
  /\ IF Len(ensemble) = 1
       THEN /\ l_pc' = "ImportError"
            /\ UNCHANGED <<l_ensemble, l_type_map>>
       ELSE /\ l_pc' = "loaded"
            /\ l_ensemble' = load_ensemble(ensemble, l_env).ensemble
            /\ l_type_map' = load_ensemble(ensemble, l_env).type_map
  /\ UNCHANGED l_env
  /\ UNCHANGED loadFrame

InitLoad ==
  /\ l_env = ClearedEnv /\ l_arg = <<>> /\ l_ensemble = <<>>
  /\ l_type_map = NoTypeMap /\ l_pc = "none"

NextLoad ==
  \/ /\ l_pc = "none" /\ l_env = ClearedEnv
     /\ \E k \in 1..4 : \E paths \in [1..k -> ModelPaths] : SetModels(paths)
  \/ /\ l_pc = "none"
     /\ \E ensemble \in {<<>>, <<"water">>} \cup [1..2 -> ModelPaths] :
          LoadEnsemble(ensemble)

(***************************************************************************)
(* get_dev called repeatedly in one working directory: train/ensemble.py   *)
(* (SampleConfigs.get_dev), cli/sample.py (CLI.main, CLI.sample)           *)
(***************************************************************************)
\* SampleConfigs(configs, ...).get_dev() in the directory; a new sampler is
\* built for every call, and only dev.npy passes from one call to the next
GetDevAgain(traj) ==
  /\ k_configs' = traj
  /\ k_dev' = get_dev(k_cache, traj).dev
  /\ k_cache' = get_dev(k_cache, traj).cache
  /\ k_calls' = Min(k_calls + 1, 2)
  /\ UNCHANGED cacheFrame

InitCache ==
  /\ k_cache = NoFile /\ k_configs = <<>> /\ k_dev = <<>> /\ k_calls = 0

NextCache == \E traj \in Trajectories : GetDevAgain(traj)

(***************************************************************************)
(* The type numbers of a GCMC simulation: simulations.py (GCMC.setup),     *)
(* calculator.py (DeepMD.set_atoms, set_types), lammps_io.py (MolInput)    *)
(***************************************************************************)
\* the species of the framework and of the molecules
GCMCSymbols == <<<<"S", "i">>, <<"O">>, <<"H">>>>

\* the symbol -> index maps the simulation can be given: every species has
\* an index of its own among 0 .. MaxIndex + 1
GCMCTypeMaps ==
  {[i \in 1..Len(GCMCSymbols) |-> [k |-> StrV(GCMCSymbols[i]), v |-> IntV(f[i])]] :
     f \in {g \in [1..Len(GCMCSymbols) -> 0..(MaxIndex + 1)] :
              \A i, j \in 1..Len(GCMCSymbols) : g[i] = g[j] => i = j}}

\* build.molecule(molecule): the symbols of its atoms
molecule_symbols(molecule) ==
  IF molecule = "H2O" THEN <<<<"O">>, <<"H">>, <<"H">>>> ELSE <<<<"H">>, <<"H">>>>

\* mol_tags = [self.type_map[m.symbol] + 1 for m in mol]
mol_tags(type_map, mol) ==
  [k \in 1..Len(mol) |-> Lookup(type_map, StrV(mol[k])).i + 1]

\* DeepMD.set_atoms: set_types, then a.tag = self._type_map[a.symbol]
set_atoms(type_map, atoms) ==
  [k \in 1..Len(atoms) |-> Lookup(set_types(type_map).map, StrV(atoms[k])).i]

\* GCMC.setup up to molin.write(): the tags of the molecule file; with
\* pre_opt_mol the calculator of the molecule's optimization has set the
\* molecule's tags anew before the file is written
GCMC_setup_tags(type_map, molecule, pre_opt_mol) ==
  IF pre_opt_mol THEN set_atoms(type_map, molecule_symbols(molecule))
  ELSE mol_tags(type_map, molecule_symbols(molecule))

NoGCMC == [type_map |-> <<>>, molecule |-> "none", pre_opt_mol |-> FALSE]

\* GCMC(atoms, graph, type_map, molecule=..., pre_opt_mol=...): setup
GCMCSetup(type_map, molecule, pre_opt_mol) ==
  /\ x_pc = "none"
  /\ x_in' = [type_map |-> type_map, molecule |-> molecule, pre_opt_mol |-> pre_opt_mol]
  /\ x_mol_tags' = GCMC_setup_tags(type_map, molecule, pre_opt_mol)
  /\ x_pc' = "setup"
  /\ UNCHANGED x_types
  /\ UNCHANGED gcmcFrame

\* Simulation.run: DeepMD(graph, type_map=self.type_map) writes the
\* framework with the types set_types leaves
GCMCRun ==
  /\ x_pc = "setup"
  /\ x_types' = set_types(x_in.type_map).map
  /\ x_pc' = "run"
  /\ UNCHANGED <<x_in, x_mol_tags>>
  /\ UNCHANGED gcmcFrame

InitGCMC ==
  /\ x_in = NoGCMC /\ x_mol_tags = <<>> /\ x_types = <<>> /\ x_pc = "none"

NextGCMC ==
  \/ /\ x_pc = "none"
     /\ \E type_map \in GCMCTypeMaps, molecule \in {"H2O", "H2"},
           pre_opt_mol \in BOOLEAN :
          GCMCSetup(type_map, molecule, pre_opt_mol)
  \/ GCMCRun

(***************************************************************************)
(* DeepInput: dptools/train/input.py (set_dataset, write_input,            *)
(* write_npy_set)                                                          *)
(*                                                                         *)
(* A frame is known by its position after the shuffle.                     *)
(***************************************************************************)
\* int(np.ceil(length * p / q)) for the fractions 0.80 and 0.90
ceil_frac(length, p, q) == (length * p + q - 1) \div q

\* the split points as the percentages alone give them
split_points_unadjusted(length) ==
  [n_train |-> ceil_frac(length, 4, 5), n_val |-> ceil_frac(length, 9, 10),
   err |-> "none"]

\* write_input: n_train and n_val, the training set shortened where the
\* validation set would have fewer than 10 frames, ValueError where that
\* leaves fewer than 1 training frame
split_points(length) ==
  LET n_train == ceil_frac(length, 4, 5)
      n_val == ceil_frac(length, 9, 10)
  IN IF n_val - n_train < 10
       THEN IF n_val - 10 < 1
              THEN [n_train |-> n_val - 10, n_val |-> n_val, err |-> "ValueError"]
              ELSE [n_train |-> n_val - 10, n_val |-> n_val, err |-> "none"]
       ELSE [n_train |-> n_train, n_val |-> n_val, err |-> "none"]

\* string2index of "a:b", "a:" or ":b" with a, b >= 0: a slice
string2index(txt) ==
  LET parts == split(txt, ":")
  IN [start |-> IF parts[1] = <<>> THEN [given |-> FALSE, i |-> 0]
                ELSE [given |-> TRUE, i |-> parse_int(parts[1])],
      stop |-> IF parts[2] = <<>> THEN [given |-> FALSE, i |-> 0]
               ELSE [given |-> TRUE, i |-> parse_int(parts[2])]]

\* array[slice] on an array of the given length: the positions taken
take_slice(length, slice) ==
  {i \in 0..(length - 1) :
     /\ slice.start.given => i >= slice.start.i
     /\ slice.stop.given => i < slice.stop.i}

\* the three write_npy_set calls of write_input
written_sets(length, sp) ==
  [s \in {"train", "validation", "test"} |->
     take_slice(length,
       string2index(
         CASE s = "train" -> <<":">> \o repr_int(sp.n_train)
           [] s = "validation" -> repr_int(sp.n_train) \o <<":">> \o repr_int(sp.n_val)
           [] OTHER -> repr_int(sp.n_val) \o <<":">>))]

\* set_dataset: the first n of the shuffled images when n is given and
\* smaller than their number, all of them otherwise
dataset_len(total, nmax) == IF nmax.given /\ nmax.i < total THEN nmax.i ELSE total

NoInput == [total |-> 0, n |-> [given |-> FALSE, i |-> 0]]

\* DeepInput(atoms_file, n=n, ...): set_dataset, then write_input
DeepInputInit(total, nmax) ==
  /\ i_pc = "none"
  /\ i_in' = [total |-> total, n |-> nmax]
  /\ i_len' = dataset_len(total, nmax)
  /\ LET sp == split_points(dataset_len(total, nmax))
     IN IF sp.err # "none"
          THEN /\ i_pc' = "ValueError"
               /\ UNCHANGED <<i_sets, i_types>>
          ELSE /\ i_pc' = "written"
               /\ i_sets' = written_sets(dataset_len(total, nmax), sp)
               /\ i_types' = {"train", "validation", "test"}
  /\ UNCHANGED inputFrame

InitInput ==
  /\ i_in = NoInput /\ i_len = 0
  /\ i_sets = [s \in {"train", "validation", "test"} |-> {}]
  /\ i_types = {} /\ i_pc = "none"

NextInput ==
  /\ i_pc = "none"
  /\ \E total \in 1..MaxImages :
       \E nmax \in {[given |-> FALSE, i |-> 0]}
                  \cup {[given |-> TRUE, i |-> k] : k \in 0..total} :
         DeepInputInit(total, nmax)

(***************************************************************************)
(* Specifications                                                          *)
(***************************************************************************)
vars == <<coreVars, cliVars>>

Init ==
  /\ InitSample /\ InitTypeMap /\ InitBuild /\ InitRun /\ InitProcess /\ InitEnsemble
  /\ InitMain /\ InitDump /\ InitTrain /\ InitLoad /\ InitCache /\ InitGCMC
  /\ InitInput

SpecSample == Init /\ [][NextSample]_vars

SpecTypeMap == Init /\ [][NextTypeMap]_vars

SpecBuild == Init /\ [][NextBuild]_vars

SpecRun == Init /\ [][NextRun]_vars

SpecProcess == Init /\ [][NextProcess]_vars

SpecEnsemble == Init /\ [][NextEnsemble]_vars

SpecMain == Init /\ [][NextMain]_vars

SpecDump == Init /\ [][NextDump]_vars

SpecTrain == Init /\ [][NextTrain]_vars

SpecLoad == Init /\ [][NextLoad]_vars

SpecCache == Init /\ [][NextCache]_vars

SpecGCMC == Init /\ [][NextGCMC]_vars

SpecInput == Init /\ [][NextInput]_vars

Next ==
  \/ NextSample \/ NextTypeMap \/ NextBuild \/ NextRun \/ NextProcess \/ NextEnsemble
  \/ NextMain \/ NextDump \/ NextTrain \/ NextLoad \/ NextCache \/ NextGCMC
  \/ NextInput

Spec == Init /\ [][Next]_vars

(***************************************************************************)
(* Claims about the sampler (checked under SpecSample)                     *)
(***************************************************************************)
\* the frames of self.configs whose deviation lies in the closed [lo, hi]
Qualifying == {i \in 0..(nframes - 1) : lo <= dev[i + 1] /\ dev[i + 1] <= hi}

C2_SampleCount ==
  (spc # "idle" /\ n >= 0) =>
    /\ spc = "sampled"
    /\ Len(new_configs) = Min(n, Cardinality(Qualifying))
    /\ Cardinality(Qualifying) <= n => Range(new_configs) = Qualifying

\* the cap at work: more frames qualify than are asked for
C2_Witness ==
  /\ spc = "sampled" /\ n >= 1
  /\ Cardinality(Qualifying) > n
  /\ Len(new_configs) = n

\* C3: the returned frames are pairwise distinct and strictly ascending,
\* whatever random.sample drew.
C3_SampleAscendingDistinct ==
  spc = "sampled" =>
    \A j, k \in 1..Len(new_configs) : j < k => new_configs[j] < new_configs[k]

\* a capped draw of two or more frames
C3_Witness ==
  /\ spc = "sampled"
  /\ Len(new_configs) >= 2
  /\ Cardinality(Qualifying) > Len(new_configs)

IsIndexMap(d) == \A i \in 1..Len(d) : d[i].k.kind = "str" /\ IsInt(d[i].v)

\* the map the engine-side conversions start from: LmpCalc.__init__ and
\* read_dump pass their type_map argument through read_type_map
EngineGiven == read_type_map(DictInput(tm_out.map)).map

\* d with every index raised by by
Raise(d, by) == [i \in 1..Len(d) |-> [k |-> d[i].k, v |-> IntV(d[i].v.i + by)]]

\* 1 when the engine-local form of d is d shifted, 0 when it is d itself
EngineShift(d) == IF IntV(0) \in Values(d) THEN 1 ELSE 0

\* C8: the conversion to the engine-local convention adds 1 to every index
\* iff the map holds index 0 and is a no-op otherwise; however many
\* calculate()/write_input() calls re-run it on the stored map, every index
\* is original + 1 for a 0-based map and the original for a 1-based one.
C8_EngineLocalIdempotent ==
  /\ (tm_pc = "calc" /\ IsIndexMap(EngineGiven)) =>
       calc_type_map =
         Raise(EngineGiven, IF calc_calls >= 1 THEN EngineShift(EngineGiven) ELSE 0)
  /\ (dump_types # NoResult /\ IsIndexMap(EngineGiven)) =>
       dump_types = Ok(invert(Raise(EngineGiven, EngineShift(EngineGiven))))

\* a 0-based map of two types after a second conversion
C8_Witness ==
  /\ tm_pc = "calc" /\ calc_calls >= 2
  /\ IsIndexMap(EngineGiven) /\ Len(EngineGiven) >= 2
  /\ IntV(0) \in Values(EngineGiven)
  /\ calc_type_map = Raise(EngineGiven, 1)

\* C9: read_type_map normalizes every explicit type map, written symbol ->
\* index or index -> symbol, given as a dict, as the compact string or as a
\* JSON file, to a mapping whose keys are all chemical symbols and whose
\* values are all integer indices; a mapping in which neither all keys nor
\* all values are legal chemical symbols is not accepted.
C9_ReadTypeMapNormalizes ==
  tm_pc = "read" =>
    IF \/ \A i \in 1..Len(tm_given) : IsSymbol(tm_given[i].k)
       \/ \A i \in 1..Len(tm_given) : IsSymbol(tm_given[i].v)
      THEN /\ tm_out.err = "none"
           /\ \A i \in 1..Len(tm_out.map) :
                IsSymbol(tm_out.map[i].k) /\ IsInt(tm_out.map[i].v)
      ELSE tm_out.err # "none"

\* a symbol -> index map with the indices 0 .. len-1
DenseSymbolMap(m) ==
  /\ Len(m) >= 1
  /\ \A i \in 1..Len(m) : IsSymbol(m[i].k) /\ IsInt(m[i].v)
  /\ {m[i].v.i : i \in 1..Len(m)} = 0..(Len(m) - 1)

\* C10: for a symbol -> index map m with dense 0-based indices, parsing the
\* compact text typemap2str(m) gives m again, and read_type_map of the JSON
\* object form of m equals read_type_map of the compact string form.
C10_TypeMapRoundTrip ==
  (tm_pc = "read" /\ DenseSymbolMap(tm_given)) =>
    /\ tm_form \in {"env", "str"} =>
         /\ tm_out.err = "none" /\ DictEq(tm_out.map, tm_given)
         /\ LET viaJson == read_type_map(JsonInput(json_dumps(tm_given)))
            IN viaJson.err = "none" /\ DictEq(viaJson.map, tm_out.map)
    /\ tm_form = "json" =>
         LET viaStr == read_type_map(StrInput(typemap2str(tm_given)))
         IN /\ tm_out.err = "none" /\ viaStr.err = "none"
            /\ DictEq(tm_out.map, viaStr.map)

\* the stored compact text of a two-type map with a two-letter symbol, read back
C10_Witness ==
  /\ tm_pc = "read" /\ tm_form = "env"
  /\ DenseSymbolMap(tm_given) /\ Len(tm_given) >= 2
  /\ StrV(<<"S", "i">>) \in Keys(tm_given)
  /\ tm_out.err = "none" /\ DictEq(tm_out.map, tm_given)

(***************************************************************************)
(* Claims: CommandBuilder                                                  *)
(***************************************************************************)
\* the warnings printed that name key k
WarningsNaming(k) ==
  CopiesIn([key |-> k, val |-> b_kwargs[k], calc_type |-> b_type], b_warnings)

\* some other value of parameter k changes the commands built
UsedInCommands(k) ==
  \E v \in 0..MaxValue :
    setup_commands(b_type, [b_kwargs EXCEPT ![k] = v], b_seed).commands # b_commands

\* C7: for every simulation type, each supplied parameter is either not
\* consumed by the builder, and then causes exactly one warning naming it and
\* leaves the commands as they are built without it, or is used, in setup
\* or in the commands, and then causes no warning: none is dropped silently.
C7_NoParameterSilentlyDropped ==
  b_pc = "built" =>
    \A k \in DOMAIN b_kwargs :
      LET used == k \in setup_args(b_type) \/ UsedInCommands(k)
          without == setup_commands(b_type, Rest(b_kwargs, {k}), b_seed).commands
      IN \/ WarningsNaming(k) = 1 /\ ~used /\ without = b_commands
         \/ WarningsNaming(k) = 0 /\ used

(***************************************************************************)
(* Claims: SimulationRunner                                                *)
(***************************************************************************)
\* the engine executions logged for one call of Simulation.run
Execs(job, call) ==
  SelectSeq(r_log, LAMBDA e : e.op = "exec" /\ e.job = job /\ e.call = call)

\* the process() calls logged for one simulation
Processes(job) == SelectSeq(r_log, LAMBDA e : e.op = "process" /\ e.job = job)

\* the (possibly expanded) structure set sim.run() loops over
RunSize == IF r_in.type = "eos" THEN Arg(r_in.kw, "N", 5) ELSE r_in.natoms

\* sim.run() has returned for this input of CLI.run
Returned(job) == job < r_job \/ r_pc = "done"

\* C5: every call of Simulation.run executes its commands on the structures
\* one after the other in list order, each once and none again; process() is
\* called only by a run asked to process, only after its last structure, and
\* once; a run that has returned has executed every structure of the set and
\* called process() once, or not at all when called with process=False, as
\* the run of pre_opt is.
C5_RunEachOnceThenProcess ==
  /\ \A job \in 1..r_in.njobs, call \in {"pre_opt", "run"} :
       LET ex == Execs(job, call)
       IN \A p \in 1..Len(ex) :
            /\ ex[p].idx = p
            /\ ex[p].commands = ex[1].commands
  /\ \A p \in 1..Len(r_log) :
       r_log[p].op = "process" =>
         /\ r_log[p].call = "run"
         /\ r_in.process \/ r_in.type = "vib"
         /\ Len(Processes(r_log[p].job)) = 1
         /\ Len(Execs(r_log[p].job, "run")) = RunSize
         /\ \A q \in 1..Len(r_log) :
              r_log[q].job = r_log[p].job => q <= p
  /\ \A job \in 1..r_in.njobs :
       Returned(job) =>
         /\ Len(Execs(job, "run")) = RunSize
         /\ Len(Execs(job, "pre_opt")) \in {0, r_in.natoms}
         /\ Len(Processes(job)) = IF r_in.process \/ r_in.type = "vib" THEN 1 ELSE 0

\* a run of two inputs has returned, each pre-optimized on and then run on
\* several structures and processed once
C5_Witness ==
  /\ r_pc = "done"
  /\ r_in.njobs = 2
  /\ Len(Execs(2, "pre_opt")) >= 2
  /\ Len(Execs(2, "run")) >= 2
  /\ Len(Processes(2)) = 1

\* the engine raised on a structure of a multi-structure run
EngineFailed == r_failed # NoFailure

\* the structures of the failing call that come after the failing one
AfterFailure ==
  {idx \in 1..r_atoms : idx > r_failed.idx}

\* C6 as stated: once the engine has raised on one structure of a
\* multi-structure run and the program has come to its end, every structure
\* after the failing one has been executed.
C6_ContinuesAfterFailure ==
  (EngineFailed /\ r_pc \in {"done", "raised"}) =>
    \A idx \in AfterFailure :
      \E p \in 1..Len(r_log) :
        /\ r_log[p].op = "exec"
        /\ r_log[p].job = r_failed.job
        /\ r_log[p].call = r_failed.call
        /\ r_log[p].idx = idx

\* C6 amended: a failure of the engine is fatal for the whole run.  The
\* exception leaves Simulation.run and CLI.run: the failing structure is not
\* executed again, no structure after it and no later input is executed, and
\* process() is not called for the failing simulation.
C6_FailureIsFatal ==
  EngineFailed =>
    /\ r_pc = "raised"
    /\ \A p \in 1..Len(r_log) :
         /\ r_log[p].job <= r_failed.job
         /\ (r_log[p].job = r_failed.job /\ r_log[p].call = r_failed.call)
              => (r_log[p].op = "exec" /\ r_log[p].idx < r_failed.idx)
         /\ (r_log[p].job = r_failed.job /\ r_failed.call = "pre_opt")
              => r_log[p].call = "pre_opt"
    /\ Processes(r_failed.job) = <<>>

\* the engine raised on the second of three structures of the first of two inputs
C6_Witness ==
  /\ r_pc = "raised"
  /\ r_in.njobs = 2
  /\ r_failed.job = 1
  /\ r_failed.call = "run"
  /\ r_failed.idx = 2
  /\ r_atoms = 3
  /\ Len(r_log) >= 1

(***************************************************************************)
(* Claims: the command sequences                                           *)
(***************************************************************************)
\* the positions of b_commands whose text is one of texts
Positions(texts) == {p \in 1..Len(b_commands) : b_commands[p].text \in texts}

\* the one position in a set of one
Only(ps) == CHOOSE p \in ps : TRUE

MDBuilt == b_pc = "built" /\ b_type \in {"nvt-md", "npt-md"}

VelocityTexts == {"velocity all create {} {} rot yes mom yes dist gaussian"}

EquilFixTexts ==
  {"fix equil all nvt temp {} {} ${tdamp}",
   "fix equil all npt temp {} {} ${tdamp} tri {} {} ${pdamp}"}

ProdFixTexts ==
  {"fix nvt_prod all nvt temp {} {} ${tdamp}",
   "fix npt_prod all npt temp {} {} ${tdamp} tri {} {} ${pdamp}"}

UnfixTexts == {"unfix equil"}

DumpTexts ==
  {"dump 1 all custom {} nvt.dump id type x y z",
   "dump 1 all custom {} npt.dump id type x y z"}

RunTexts == {"run {}"}

\* the fixes defined and not removed before position p
ActiveFixes(p) ==
  Cardinality({q \in Positions(EquilFixTexts \cup ProdFixTexts) : q < p})
    - Cardinality({q \in Positions(UnfixTexts) : q < p})

\* C11: the NVT and NPT sequences hold one velocity command at Ti, one
\* equilibration fix from Ti to Ti, the equilibration run, the unfix, one
\* production fix from Ti to Tf, the dump and the production run, in this
\* order; one fix is active at each run and the dump comes after the
\* equilibration run.
C11_MDCommandOrder ==
  MDBuilt =>
    LET Ti == Arg(b_kwargs, "Ti", 298)
        Tf == Arg(b_kwargs, "Tf", 298)
        runs == Positions(RunTexts)
    IN /\ Cardinality(Positions(VelocityTexts)) = 1
       /\ Cardinality(Positions(EquilFixTexts)) = 1
       /\ Cardinality(Positions(UnfixTexts)) = 1
       /\ Cardinality(Positions(ProdFixTexts)) = 1
       /\ Cardinality(Positions(DumpTexts)) = 1
       /\ Cardinality(runs) = 2
       /\ LET v == Only(Positions(VelocityTexts))
              fe == Only(Positions(EquilFixTexts))
              u == Only(Positions(UnfixTexts))
              fp == Only(Positions(ProdFixTexts))
              d == Only(Positions(DumpTexts))
              r1 == Only({r \in runs : \A q \in runs : r <= q})
              r2 == Only({r \in runs : \A q \in runs : r >= q})
          IN /\ v < fe /\ fe < r1 /\ r1 < u /\ u < fp /\ fp < d /\ d < r2
             /\ r2 = Len(b_commands)
             /\ b_commands[v].args[1] = Ti
             /\ b_commands[fe].args[1] = Ti /\ b_commands[fe].args[2] = Ti
             /\ b_commands[fp].args[1] = Ti /\ b_commands[fp].args[2] = Tf
       /\ \A r \in runs : ActiveFixes(r) = 1

\* an NPT sequence built with a ramp from Ti to another Tf
C11_Witness ==
  /\ MDBuilt
  /\ b_type = "npt-md"
  /\ "Ti" \in DOMAIN b_kwargs
  /\ "Tf" \in DOMAIN b_kwargs
  /\ b_kwargs["Ti"] # b_kwargs["Tf"]
  /\ Len(b_commands) > 0

\* C12: the NVT builder called again with the same parameters returns a
\* sequence of the same length, equal at every position but the velocity
\* command and there different in the seed only; a seed passed by the caller
\* does not reach the commands.
C12_OnlySeedDiffers ==
  (b_pc = "built" /\ b_type = "nvt-md") =>
    /\ \A sd \in 0..MaxSeed :
         LET again == setup_commands(b_type, b_kwargs, sd).commands
         IN /\ Len(again) = Len(b_commands)
            /\ \A p \in 1..Len(again) :
                 again[p] # b_commands[p] =>
                   /\ b_commands[p].text \in VelocityTexts
                   /\ again[p].text = b_commands[p].text
                   /\ again[p].args[1] = b_commands[p].args[1]
                   /\ Len(again[p].args) = 2
                   /\ Len(b_commands[p].args) = 2
    /\ "seed" \in DOMAIN b_kwargs =>
         setup_commands(b_type, Rest(b_kwargs, {"seed"}), b_seed).commands = b_commands

\* an NVT sequence built while the caller passed a seed other than the one drawn
C12_Witness ==
  /\ b_pc = "built"
  /\ b_type = "nvt-md"
  /\ "seed" \in DOMAIN b_kwargs
  /\ b_kwargs["seed"] # b_seed
  /\ \E sd \in 0..MaxSeed : setup_commands(b_type, b_kwargs, sd).commands # b_commands

\* C13: with equil_steps <= steps, the last run command of the NVT and NPT
\* sequences runs steps - equil_steps timesteps, so that the two runs
\* total steps.
C13_ProductionRunsRemainingSteps ==
  (MDBuilt /\ Arg(b_kwargs, "equil_steps", 1000) <= Arg(b_kwargs, "steps", 10000)) =>
    /\ b_commands[Len(b_commands)].text \in RunTexts
    /\ b_commands[Len(b_commands)].args[1] =
         Arg(b_kwargs, "steps", 10000) - Arg(b_kwargs, "equil_steps", 1000)

\* C14: the Opt sequence is thermo disp_freq, min_modify norm max, minimize
\* etol ftol nsw 10*nsw, and the same whenever built from the same parameters.
C14_OptSequence ==
  (b_pc = "built" /\ b_type = "opt") =>
    LET nsw == Arg(b_kwargs, "nsw", 1000)
        ftol == Arg(b_kwargs, "ftol", 10)
        etol == Arg(b_kwargs, "etol", 0)
        disp_freq == Arg(b_kwargs, "disp_freq", 10)
    IN /\ Len(b_commands) = 3
       /\ b_commands[1] = [text |-> "thermo {}", args |-> <<disp_freq>>]
       /\ b_commands[2] = [text |-> "min_modify norm max", args |-> <<>>]
       /\ b_commands[3].text = "minimize {} {} {} {}"
       /\ b_commands[3].args = <<etol, ftol, nsw, 10 * nsw>>
       /\ \A sd \in 0..MaxSeed :
            setup_commands(b_type, b_kwargs, sd).commands = b_commands

\* an Opt sequence built with nsw given
C14_Witness ==
  /\ b_pc = "built"
  /\ b_type = "opt"
  /\ "nsw" \in DOMAIN b_kwargs
  /\ b_kwargs["nsw"] > 0
  /\ Len(b_commands) = 3

\* the parameters of b_kwargs that the Opt builder names
OptParams ==
  [k \in (DOMAIN b_kwargs) \cap {"nsw", "ftol", "etol", "disp_freq"} |-> b_kwargs[k]]

\* C15: the CellOpt sequence is the Opt sequence of the same nsw, ftol, etol
\* and disp_freq with the box/relax fix of opt_type and Ptarget put just
\* before the minimize command and its unfix just after; each such fix is
\* removed later in the sequence, with the minimize command in between.
C15_CellOptWrapsOpt ==
  (b_pc = "built" /\ b_type = "cellopt") =>
    LET opt == setup_commands("opt", OptParams, b_seed).commands
        m == CHOOSE p \in 1..Len(opt) : opt[p].text = "minimize {} {} {} {}"
        fix == [text |-> "fix cellopt all box/relax {} {}",
                args |-> <<Arg(b_kwargs, "opt_type", 1), Arg(b_kwargs, "Ptarget", 0)>>]
        unfix == [text |-> "unfix cellopt", args |-> <<>>]
    IN /\ b_commands = SubSeq(opt, 1, m - 1) \o <<fix, opt[m], unfix>>
                         \o SubSeq(opt, m + 1, Len(opt))
       /\ \A f \in Positions({fix.text}) :
            \E u \in Positions({unfix.text}) :
              \E mm \in Positions({"minimize {} {} {} {}"}) : f < mm /\ mm < u

\* a CellOpt sequence built with opt_type and nsw given
C15_Witness ==
  /\ b_pc = "built"
  /\ b_type = "cellopt"
  /\ "opt_type" \in DOMAIN b_kwargs
  /\ "nsw" \in DOMAIN b_kwargs
  /\ Positions({"fix cellopt all box/relax {} {}"}) # {}

(***************************************************************************)
(* Claims: post-processing                                                 *)
(***************************************************************************)
\* a / b <= c / d and a / b = c / d for fractions of positive denominators
FracLeq(x, y) == x.num * y.den <= y.num * x.den

FracEq(x, y) == x.num * y.den = y.num * x.den

\* C16: EOS setup leaves exactly N structures, no unscaled extra one; for
\* N > 1 the k-th (k = 0 .. N-1) has volume V0 * (lo + k * (hi - lo) / (N - 1)),
\* the first V0 * lo and the last V0 * hi, ascending when lo <= hi; for
\* lo = 0.96, hi = 1.04, N = 5 the factors are 0.96, 0.98, 1.00, 1.02, 1.04.
C16_EOSVolumes ==
  eos_pc # "none" =>
    LET N == eos_in.N
        V0 == eos_in.V0
        vol(k) == get_volume(eos_atoms[k + 1])
    IN /\ Len(eos_atoms) = N
       /\ N > 1 =>
            /\ \A k \in 0..(N - 1) :
                 FracEq(vol(k),
                        Fraction(V0 * (eos_in.lo * (N - 1) + k * (eos_in.hi - eos_in.lo)),
                                 N - 1))
            /\ FracEq(vol(0), Fraction(V0 * eos_in.lo, 1))
            /\ FracEq(vol(N - 1), Fraction(V0 * eos_in.hi, 1))
            /\ eos_in.lo <= eos_in.hi =>
                 \A k \in 0..(N - 2) : FracLeq(vol(k), vol(k + 1))
       /\ (eos_in.lo = 96 /\ eos_in.hi = 104 /\ N = 5) =>
            \A k \in 0..4 : FracEq(vol(k), Fraction(V0 * (96 + 2 * k), 1))

\* the default scan, 0.96 to 1.04 in 5 volumes, set up on a cell of volume 2
C16_Witness ==
  /\ eos_pc = "setup"
  /\ eos_in = [V0 |-> 2, lo |-> 96, hi |-> 104, N |-> 5]
  /\ Len(eos_atoms) = 5

Negatives(s) == Cardinality({i \in 1..Len(s) : s[i] < 0})

\* C18: the frequencies are written in the descending order of the
\* eigenvalues, entry i negative exactly when the i-th eigenvalue of that order
\* is; so as many frequencies as eigenvalues are negative, one negative
\* eigenvalue gives one negative entry at its rank, and a zero eigenvalue
\* gives no negative entry.
C18_VibNegativeIffImaginary ==
  vib_pc = "processed" =>
    /\ Len(vib_freq) = Len(vib_eig)
    /\ Len(vib_sorted) = Len(vib_eig)
    /\ \A e \in EigValues :
         Cardinality({i \in 1..Len(vib_eig) : vib_eig[i] = e})
           = Cardinality({i \in 1..Len(vib_sorted) : vib_sorted[i] = e})
    /\ \A i \in 1..(Len(vib_sorted) - 1) : vib_sorted[i] >= vib_sorted[i + 1]
    /\ \A i \in 1..Len(vib_freq) : (vib_freq[i] < 0) <=> (vib_sorted[i] < 0)
    /\ Negatives(vib_freq) = Negatives(vib_eig)
    /\ Negatives(vib_eig) = 1 =>
         \A i \in 1..Len(vib_freq) : (vib_freq[i] < 0) <=> (i = Len(vib_freq))

\* one negative eigenvalue, found first by eig, and a zero one
C18_Witness ==
  /\ vib_pc = "processed"
  /\ Negatives(vib_eig) = 1
  /\ vib_eig[1] < 0
  /\ \E i \in 1..Len(vib_eig) : vib_eig[i] = 0
  /\ Negatives(vib_freq) = 1

(***************************************************************************)
(* Claims: the engine handle                                               *)
(***************************************************************************)
\* the positions of the log at which a structure was executed
ExecPositions == {p \in 1..Len(r_log) : r_log[p].op = "exec"}

\* C19 as stated: the structures of one run are all executed on the same
\* engine handle, cleared before each structure's input is loaded.
C19_SingleHandleReused ==
  \A p, q \in ExecPositions :
    (r_log[p].job = r_log[q].job /\ r_log[p].call = r_log[q].call) =>
      /\ r_log[p].handle = r_log[q].handle
      /\ r_log[p].lmp[1].text = "clear"

\* C19 amended: the runner builds a calculator, and with it opens an engine
\* handle, for every structure it executes: no two executions share a handle.
\* On each handle clear is sent first, then the structure's input is loaded,
\* then the commands are sent; no handle is used for a second structure.
C19_NewHandlePerStructure ==
  \A p, q \in ExecPositions :
    /\ p # q => r_log[p].handle # r_log[q].handle
    /\ r_log[p].lmp[1].text = "clear"
    /\ r_log[p].lmp[2].text = "file in.atoms"
    /\ SubSeq(r_log[p].lmp, 3, Len(r_log[p].lmp)) = r_log[p].commands

\* three structures of one input have been executed by sim.run()
C19_Witness ==
  /\ r_pc = "done"
  /\ r_in.njobs = 1
  /\ Cardinality({p \in ExecPositions : r_log[p].call = "run"}) = 3

(***************************************************************************)
(* Claims: the size of the ensemble                                        *)
(***************************************************************************)
\* get_dev has been called on an ensemble of fewer than two models
FewModelsCalled == g_pc \in {"returned", "raised"} /\ g_graphs < 2

\* dev.npy as the call found it holds an array of the trajectory's length
PriorValid(len) == g_prior.exists /\ Len(g_prior.data) = len

UnknownAsked == m_pc # "none" /\ Head(m_args.name) \notin CalcTypes

\* the run executes in this invocation: neither --submit nor --generate-input
DirectRun == ~m_args.submit /\ ~m_args.generate_input

\* the keyword names no stored parameter set
KeywordNotStored == ~m_args.yaml /\ m_args.name \notin m_args.stored

\* C21 as stated: an unregistered calculation type, given as a keyword or as
\* the type of a parameter file, is rejected with a fatal error before any
\* simulation is set up, any engine command issued or any output written.
C21_UnknownTypeRejected ==
  UnknownAsked => m_log = <<>> /\ m_pc # "done"

\* C21 as the code has it: for an unregistered calculation type no simulation
\* is ever set up or run and no simulation output is written; when the run is
\* direct, or the keyword names no stored set, KeyError is raised with nothing
\* written at all; with --submit or --generate-input and a parameter file or
\* stored set of that type, the job scripts are written (and submitted)
\* and the invocation ends without an error.  After the error no step is
\* taken.
C21_UnknownTypeRejectedWhenRun ==
  /\ [](UnknownAsked =>
          /\ \A k \in 1..Len(m_log) : m_log[k].op \in {"script", "sbatch"}
          /\ (DirectRun \/ KeywordNotStored) => m_log = <<>> /\ m_pc \in {"run", "KeyError"}
          /\ (~DirectRun /\ ~KeywordNotStored) =>
                /\ m_pc = "done"
                /\ m_log = SlurmJob_write(m_args.nstructures, m_args.submit))
  /\ [][m_pc = "KeyError" => UNCHANGED mainVars]_vars

\* a parameter file of an unregistered type is run on two inputs and raises
C21_Witness ==
  /\ m_pc = "KeyError" /\ m_args.yaml /\ DirectRun
  /\ m_args.name = <<"md", "fast">> /\ m_args.nstructures = 2

(***************************************************************************)
(* Claims about the data read back from the engine (checked under SpecDump)*)
(***************************************************************************)
\* C22: whatever order the engine stores the atoms in, entry k of the
\* positions and forces calculate() leaves, and of the positions, symbols and
\* tags read_dump returns, is the engine's data of the atom with id k, the
\* caller's k-th atom; so positions, species and tags of one atom stay
\* aligned.
C22_ReadBackInIdOrder ==
  /\ e_pc = "calculated" =>
       /\ Len(c_out.positions) = Len(e_ids) /\ Len(c_out.forces) = Len(e_ids)
       /\ \A k \in 1..Len(e_ids) :
            /\ c_out.positions[k] = e_atoms[k].x - e_shift
            /\ c_out.forces[k] = e_atoms[k].f
  /\ e_pc = "read" =>
       /\ Len(d_out.positions) = Len(e_ids)
       /\ \A k \in 1..Len(e_ids) :
            /\ d_out.positions[k] = e_atoms[k].x - e_shift
            /\ d_out.symbols[k] = DumpSymbols[e_atoms[k].type]
            /\ d_out.tags[k] = e_atoms[k].type

\* a dump of three atoms stored in the order 3, 1, 2, whose first and last
\* atoms differ in position and species, has been read
C22_Witness ==
  /\ e_pc = "read" /\ e_ids = <<3, 1, 2>>
  /\ e_atoms[1].x # e_atoms[3].x /\ e_atoms[1].type # e_atoms[3].type
  /\ d_out.symbols = <<"Si", "O", "O">>

(***************************************************************************)
(* Claims about `dptools train` (checked under SpecTrain)                  *)
(***************************************************************************)
\* position of directory d in self.dirs
DirIndex(d) == CHOOSE k \in 1..Len(t_dirs) : t_dirs[k] = d

C24_TrainFilesAndSubmission ==
  t_pc = "done" =>
    \A k \in 1..Len(t_dirs) :
      /\ t_dirs[k] \in DOMAIN t_files
      /\ Cardinality({j \in 1..Len(t_log) : t_log[j] = Event("script", k)}) = 1
      /\ Cardinality({j \in 1..Len(t_log) : t_log[j] = Event("sbatch", k)})
           = IF t_args.submit THEN 1 ELSE 0
      /\ \A j \in 1..Len(t_log) :
           t_log[j] = Event("sbatch", k) =>
             \E i \in 1..(j - 1) : t_log[i] = Event("script", k)

\* an ensemble was set up and its four jobs submitted
C24_Witness ==
  /\ t_pc = "done" /\ t_args.ensemble /\ t_args.submit
  /\ Len(t_log) = 8 /\ t_log[8] = Event("sbatch", 4)

(***************************************************************************)
(* Claims about the timestep of the MD builders (checked under SpecBuild)  *)
(***************************************************************************)
\* the commands that define the variable dt, and the value each gives it
DtPositions ==
  {k \in 1..Len(b_commands) :
     b_commands[k].text \in {"variable\tdt\tequal\t0.5e-3", "variable\tdt\tequal\t{}"}}

DtEmitted(k) ==
  IF b_commands[k].args = <<>> THEN [mantissa |-> 5, exponent |-> -4]
  ELSE b_commands[k].args[1]

\* C25: the NVT and NPT builders set the engine timestep from the caller's
\* timestep converted from fs to ps: the one dt command carries
\* timestep * 1e-3.
C25_DtIsConvertedTimestep ==
  (b_pc = "built" /\ b_type \in {"nvt-md", "npt-md"}) =>
    /\ Cardinality(DtPositions) = 1
    /\ \A k \in DtPositions : DtEmitted(k) = fs_to_ps(Arg(b_kwargs, "timestep", 5))

(***************************************************************************)
(* Claims about the ensemble `dptools sample` loads (checked under         *)
(* SpecLoad)                                                               *)
(***************************************************************************)
\* C26: run without explicit model paths, load_ensemble takes the type map
\* from the stored DPTOOLS_TYPE_MAP entry and the ensemble from the stored
\* DPTOOLS_MODEL, DPTOOLS_MODEL2, DPTOOLS_MODEL3, DPTOOLS_MODEL4 in that
\* order: the ensemble holds only model paths and the type map is the stored
\* type-map string.
C26_LoadsStoredEnsemble ==
  (l_pc = "loaded" /\ Len(l_arg) <= 1) =>
    /\ l_type_map.text = l_env["DPTOOLS_TYPE_MAP"]
    /\ l_ensemble = <<l_env["DPTOOLS_MODEL"], l_env["DPTOOLS_MODEL2"],
                      l_env["DPTOOLS_MODEL3"], l_env["DPTOOLS_MODEL4"]>>

(***************************************************************************)
(* Claims about repeated get_dev calls (checked under SpecCache)           *)
(***************************************************************************)
\* C27: in any sequence of get_dev calls made from the same working
\* directory on possibly different trajectories, every call returns the
\* deviation values of the trajectory it was called with; a cache written
\* for one trajectory is never returned for another, not even one with the
\* same number of frames.
C27_DevIsOfCalledTrajectory ==
  k_calls > 0 => k_dev = k_configs

(***************************************************************************)
(* Claims about the calculator's calls on the engine (checked under        *)
(* SpecRun)                                                                *)
(***************************************************************************)
\* the commands the engine executed during one calculation, in order: those
\* sent one by one and those of the files it loaded
RECURSIVE Executed(_)
Executed(calls) ==
  IF calls = <<>> THEN <<>>
  ELSE (IF Head(calls).call = "extract" THEN <<>> ELSE Head(calls).cmds)
         \o Executed(Tail(calls))

Occurrences(c, s) == Cardinality({k \in 1..Len(s) : s[k] = c})

C29_MoleculeTagsMatchCalculator ==
  x_pc = "run" =>
    \A k \in 1..Len(x_mol_tags) :
      x_mol_tags[k] = Lookup(x_types, StrV(molecule_symbols(x_in.molecule)[k])).i

(***************************************************************************)
(* Claims about DeepInput (checked under SpecInput)                        *)
(***************************************************************************)
\* C30: the L selected frames are split into train = [0, n_train),
\* validation = [n_train, n_val) and test = [n_val, L); whenever DeepInput
\* does not raise, the three sets are pairwise disjoint and together cover
\* all L frames, train has at least 1 frame, validation at least 10 and test
\* at least 1, and each set gets its data files and its type.raw; when fewer
\* than 1 training frame would remain it raises ValueError and writes no
\* set.
C30_SplitCoversAndMinimums ==
  /\ i_pc = "written" =>
       LET sp == split_points(i_len)
       IN /\ i_sets["train"] = 0..(sp.n_train - 1)
          /\ i_sets["validation"] = sp.n_train..(sp.n_val - 1)
          /\ i_sets["test"] = sp.n_val..(i_len - 1)
          /\ i_sets["train"] \cap i_sets["validation"] = {}
          /\ i_sets["train"] \cap i_sets["test"] = {}
          /\ i_sets["validation"] \cap i_sets["test"] = {}
          /\ i_sets["train"] \cup i_sets["validation"] \cup i_sets["test"]
               = 0..(i_len - 1)
          /\ Cardinality(i_sets["train"]) >= 1
          /\ Cardinality(i_sets["validation"]) >= 10
          /\ Cardinality(i_sets["test"]) >= 1
          /\ i_types = {"train", "validation", "test"}
  /\ i_pc = "ValueError" =>
       /\ ceil_frac(i_len, 9, 10) - 10 < 1
       /\ i_types = {} /\ \A s \in DOMAIN i_sets : i_sets[s] = {}

\* twelve frames are split into 1, 10 and 1
C30_Witness ==
  /\ i_pc = "written" /\ i_len = 12 /\ i_in.n.given /\ i_in.total > 12
  /\ i_sets["train"] = {0} /\ i_sets["test"] = {11}

=============================================================================
